---- MODULE Spec2Model ----
(***************************************************************************)
(* Zone-interaction engine of the hand-tracked musical interface:          *)
(*   NoteZone            (src/note_mapping/zone.py)                        *)
(*   InteractionManager  (src/note_mapping/interaction_logic.py)           *)
(*   AudioEngine         (src/audio_output/audio_engine.py)                *)
(*   MidiHandler         (src/audio_output/midi_handler.py)                *)
(*   LayoutGenerator     (src/note_mapping/layout_generator.py)            *)
(*   PitchBendProcessor, VelocityIntensityProcessor (src/expression_control) *)
(*                                                                         *)
(* Several specifications share the state:                                    *)
(*   Spec      the frame loop: every step is one whole call of             *)
(*             process_hands_data or cleanup_stale_notes;                  *)
(*   SpecMidi  the MidiHandler driven directly through send_note_on,       *)
(*             send_note_off and close_port;                               *)
(*   SpecApp   Application.run: frames, the 'r' key and shutdown;          *)
(*   SpecPartial  frames whose landmark lists may lack entries;            *)
(*   SpecConfig  a MidiHandler built from a drawn midi_channel_range;      *)
(*   SpecZone  the NoteZone objects of the list driven directly;           *)
(*   SpecLayout  LayoutGenerator.generate_layout on drawn settings;        *)
(*   SpecSends  the MidiHandler driven through its five send methods and   *)
(*             close_port;                                                 *)
(*   SpecOverlap  the frame loop on a zone list whose rectangles overlap;  *)
(*   SpecFingers  InteractionManager.__init__ on drawn finger settings,    *)
(*             then frames;                                                *)
(*   SpecContain, SpecLookup, SpecNotes, SpecRoundTrip, SpecExpression     *)
(*             functions applied to drawn inputs.                          *)
(***************************************************************************)
EXTENDS Integers, Sequences, FiniteSets, TLC

VARIABLES
    active_notes,          \* InteractionManager.active_notes, in insertion order
    zones,                 \* per zone of the list: is_active, active_finger_id
    available_channels,    \* MidiHandler.available_channels
    active_note_channels,  \* MidiHandler.active_note_channels (finger -> channel)
    port,                  \* MidiHandler.port: "open" or "none"
    mpe_ch_range,          \* the accepted midi_channel_range <<low, high>>
    hands_data,            \* argument of the last process_hands_data call
    events,                \* calls made on the AudioEngine by the last operation
    sent,                  \* messages passed to port.send by the last operation
    released,              \* state right after the release pass of the last frame
    layout_gen,            \* generate_layout calls since the first: the generation
                           \* of the NoteZone objects now in the zone list
    op                     \* the last operation and its arguments; for a call made
                           \* on the MidiHandler directly, also the
                           \* active_note_channels the call found

vars == <<active_notes, zones, available_channels, active_note_channels, port,
          mpe_ch_range, hands_data, events, sent, released, layout_gen, op>>

----------------------------------------------------------------------------
(* Bounds and program constants *)

\* hand_detector.max_num_hands as configured: the detector reports at most
\* this many hands per frame.
MaxHands == 1

\* Number of zones of the layout.
NumZones == 2

\* Number of times the 'r' key is pressed in a run.
MaxRegenerations == 1

\* Largest width and height of the rectangles is_point_inside is applied to
\* on its own.
MaxSide == 2

\* Longest landmark list _get_finger_tip_coordinate is applied to on its own.
MaxListLen == 3

\* None, for a finger identifier or a coordinate.
None == <<>>

FingerNames == <<"THUMB", "INDEX", "MIDDLE", "RING", "PINKY">>

FINGER_TIP_LANDMARKS == [n \in {"THUMB", "INDEX", "MIDDLE", "RING", "PINKY"} |->
    CASE n = "THUMB"  -> 4
      [] n = "INDEX"  -> 8
      [] n = "MIDDLE" -> 12
      [] n = "RING"   -> 16
      [] n = "PINKY"  -> 20]

LANDMARK_ID_TO_FINGER_NAME == [t \in {4, 8, 12, 16, 20} |->
    CHOOSE n \in DOMAIN FINGER_TIP_LANDMARKS : FINGER_TIP_LANDMARKS[n] = t]

\* use_all_fingers = False with allowed_fingers = ['INDEX', 'MIDDLE'].
target_fingers == {FINGER_TIP_LANDMARKS["INDEX"], FINGER_TIP_LANDMARKS["MIDDLE"]}

\* NoteZone.rect = (x, y, width, height) and NoteZone.note_midi_value of each
\* zone of the list: one row of zones of width 2 side by side, as
\* generate_layout tiles a row.
TiledZones ==
    [i \in 1..NumZones |->
        [rect |-> <<2 * (i - 1), 0, 2, 2>>, note_midi_value |-> 60 + 2 * (i - 1)]]

\* A zone list process_hands_data can be handed but generate_layout does not
\* build: every zone starts at x = 0 and reaches the right edge the tiled zone
\* of its index has, so that each zone lies inside every later one.
OverlappingZones ==
    [i \in 1..NumZones |->
        [rect |-> <<0, 0, 2 * i, 2>>, note_midi_value |-> 60 + 2 * (i - 1)]]

ZoneIdx == 1..NumZones

\* NoteZone(x, y, width, height, note_name, note_midi_value) for every entry of
\* a layout: is_active = False, active_finger_id = None.
NewZones(layout) ==
    [z \in ZoneIdx |->
        [is_active |-> FALSE, active_finger_id |-> None,
         rect |-> layout[z].rect, note_midi_value |-> layout[z].note_midi_value]]

FreshZones == NewZones(TiledZones)

\* The zone list handed to process_hands_data: rect and note_midi_value of the
\* NoteZone objects of the list.
ZoneList ==
    [z \in ZoneIdx |->
        [rect |-> zones[z].rect, note_midi_value |-> zones[z].note_midi_value]]

\* Fingertip positions: inside zone 1; on the left edge of every later zone
\* (the edge it shares with the zone before it); on the right edge of the last
\* zone (inside no zone).
Points ==
    {<<1, 1>>} \cup {<<2 * (i - 1), 1>> : i \in 2..NumZones} \cup {<<2 * NumZones, 1>>}

Handedness == {"Left", "Unknown"}

\* Accepted values of midi_channel_range.
ChannelRanges == { <<2, 2>>, <<2, 3>> }

----------------------------------------------------------------------------
(* NoteZone *)

\* is_point_inside with the max edges included.
is_point_inside_Closed(rect, point_x, point_y) ==
    /\ rect[1] <= point_x /\ point_x <= rect[1] + rect[3]
    /\ rect[2] <= point_y /\ point_y <= rect[2] + rect[4]

is_point_inside(rect, point_x, point_y) ==
    /\ rect[1] <= point_x /\ point_x < rect[1] + rect[3]
    /\ rect[2] <= point_y /\ point_y < rect[2] + rect[4]

activate(zone, finger_id) ==
    [zone EXCEPT !.is_active = TRUE, !.active_finger_id = finger_id]

\* deactivate that leaves the zone as it is.
deactivate_Noop(zone) == zone

deactivate(zone) ==
    [zone EXCEPT !.is_active = FALSE, !.active_finger_id = None]

----------------------------------------------------------------------------
(* MidiHandler.  m is the handler: available_channels, active_note_channels,   *)
(* port and the messages handed to port.send.  A message's channel is the     *)
(* 0-indexed channel mido is given.                                           *)

EmptyMap == [x \in {} |-> 0]

Put(f, k, v) == [x \in (DOMAIN f) \cup {k} |-> IF x = k THEN v ELSE f[x]]

Drop(f, k) == [x \in (DOMAIN f) \ {k} |-> f[x]]

Values(f) == {f[x] : x \in DOMAIN f}

\* set.pop(): an arbitrary element; pref is the order in which this run of the
\* interpreter would yield the channels.
SetPop(S, pref) ==
    pref[CHOOSE i \in 1..Len(pref) :
            /\ pref[i] \in S
            /\ \A j \in 1..(i - 1) : pref[j] \notin S]

\* A value of the setting 'midi_channel_range': kind "list" with its items,
\* kind "missing" (the key is absent: get_setting answers the default [2, 16])
\* or kind "str" (a value that is not a list).  An item is an int with its
\* value or a str.
IsIntItem(item) == item.kind = "int"

DefaultChannelRange == <<2, 16>>

\* The validation without the test low <= high.
ValidChannelRange_NoOrderCheck(cfg) ==
    /\ cfg.kind = "list"
    /\ Len(cfg.items) = 2
    /\ IsIntItem(cfg.items[1]) /\ IsIntItem(cfg.items[2])
    /\ 1 <= cfg.items[1].val /\ cfg.items[1].val <= 16
    /\ 1 <= cfg.items[2].val /\ cfg.items[2].val <= 16

\* isinstance(mpe_ch_range, list) and len(mpe_ch_range) == 2 and ... and
\* mpe_ch_range[0] <= mpe_ch_range[1]
ValidChannelRange(cfg) ==
    /\ cfg.kind = "list"
    /\ Len(cfg.items) = 2
    /\ IsIntItem(cfg.items[1]) /\ IsIntItem(cfg.items[2])
    /\ 1 <= cfg.items[1].val /\ cfg.items[1].val <= 16
    /\ 1 <= cfg.items[2].val /\ cfg.items[2].val <= 16
    /\ cfg.items[1].val <= cfg.items[2].val

\* The mpe_ch_range MidiHandler.__init__ ends up with.
AcceptedChannelRange(cfg) ==
    IF cfg.kind = "missing" THEN DefaultChannelRange
    ELSE IF ValidChannelRange(cfg) THEN <<cfg.items[1].val, cfg.items[2].val>>
    ELSE DefaultChannelRange

MidiInit(range) ==
    [available_channels |-> range[1]..range[2],
     active_note_channels |-> EmptyMap]

\* A port guard that lets every call through.
PortUsable_Always(m) == TRUE

PortUsable(m) == m.port = "open"

\* send_note_on that assigns a channel without taking it out of the pool.
send_note_on_KeepsAvailable(m, note_midi_value, finger_id, pref) ==
    IF ~PortUsable(m) THEN m
    ELSE IF finger_id \in DOMAIN m.active_note_channels
    THEN [m EXCEPT !.sent = Append(@,
            [type |-> "note_on", note |-> note_midi_value,
             channel |-> m.active_note_channels[finger_id] - 1])]
    ELSE IF m.available_channels # {}
    THEN LET assigned_channel == SetPop(m.available_channels, pref) IN
         [m EXCEPT !.active_note_channels = Put(@, finger_id, assigned_channel),
                   !.sent = Append(@,
                      [type |-> "note_on", note |-> note_midi_value,
                       channel |-> assigned_channel - 1])]
    ELSE m

\* send_note_on that falls back to the master channel when the pool is empty
\* (the option the comment at midi_handler.py:124-125 leaves disabled).
send_note_on_MasterFallback(m, note_midi_value, finger_id, pref) ==
    IF ~PortUsable(m) THEN m
    ELSE IF finger_id \in DOMAIN m.active_note_channels
    THEN [m EXCEPT !.sent = Append(@,
            [type |-> "note_on", note |-> note_midi_value,
             channel |-> m.active_note_channels[finger_id] - 1])]
    ELSE IF m.available_channels # {}
    THEN LET assigned_channel == SetPop(m.available_channels, pref) IN
         [m EXCEPT !.available_channels = @ \ {assigned_channel},
                   !.active_note_channels = Put(@, finger_id, assigned_channel),
                   !.sent = Append(@,
                      [type |-> "note_on", note |-> note_midi_value,
                       channel |-> assigned_channel - 1])]
    ELSE [m EXCEPT !.sent = Append(@,
            [type |-> "note_on", note |-> note_midi_value, channel |-> 0])]

\* send_note_on that gives a finger that already holds a channel another one
\* when the pool has one, handing the old channel back.
send_note_on_Reallocates(m, note_midi_value, finger_id, pref) ==
    IF ~PortUsable(m) THEN m
    ELSE IF m.available_channels # {}
    THEN LET assigned_channel == SetPop(m.available_channels, pref)
             held == IF finger_id \in DOMAIN m.active_note_channels
                     THEN {m.active_note_channels[finger_id]} ELSE {}
         IN
         [m EXCEPT !.available_channels = (@ \ {assigned_channel}) \cup held,
                   !.active_note_channels = Put(@, finger_id, assigned_channel),
                   !.sent = Append(@,
                      [type |-> "note_on", note |-> note_midi_value,
                       channel |-> assigned_channel - 1])]
    ELSE IF finger_id \in DOMAIN m.active_note_channels
    THEN [m EXCEPT !.sent = Append(@,
            [type |-> "note_on", note |-> note_midi_value,
             channel |-> m.active_note_channels[finger_id] - 1])]
    ELSE m

send_note_on(m, note_midi_value, finger_id, pref) ==
    IF ~PortUsable(m) THEN m
    ELSE IF finger_id \in DOMAIN m.active_note_channels
    THEN [m EXCEPT !.sent = Append(@,
            [type |-> "note_on", note |-> note_midi_value,
             channel |-> m.active_note_channels[finger_id] - 1])]
    ELSE IF m.available_channels # {}
    THEN LET assigned_channel == SetPop(m.available_channels, pref) IN
         [m EXCEPT !.available_channels = @ \ {assigned_channel},
                   !.active_note_channels = Put(@, finger_id, assigned_channel),
                   !.sent = Append(@,
                      [type |-> "note_on", note |-> note_midi_value,
                       channel |-> assigned_channel - 1])]
    ELSE m

\* send_note_off that forgets to hand the channel back to the pool.
send_note_off_KeepsChannel(m, note_midi_value, finger_id) ==
    IF ~PortUsable(m) THEN m
    ELSE IF finger_id \in DOMAIN m.active_note_channels
    THEN LET assigned_channel == m.active_note_channels[finger_id] IN
         [m EXCEPT !.active_note_channels = Drop(@, finger_id),
                   !.sent = Append(@,
                      [type |-> "note_off", note |-> note_midi_value,
                       channel |-> assigned_channel - 1])]
    ELSE m

\* send_note_off that releases every assignment, not only the finger's.
send_note_off_DropsAll(m, note_midi_value, finger_id) ==
    IF ~PortUsable(m) THEN m
    ELSE IF finger_id \in DOMAIN m.active_note_channels
    THEN LET assigned_channel == m.active_note_channels[finger_id] IN
         [m EXCEPT !.active_note_channels = EmptyMap,
                   !.available_channels = @ \cup Values(m.active_note_channels),
                   !.sent = Append(@,
                      [type |-> "note_off", note |-> note_midi_value,
                       channel |-> assigned_channel - 1])]
    ELSE m

send_note_off(m, note_midi_value, finger_id) ==
    IF ~PortUsable(m) THEN m
    ELSE IF finger_id \in DOMAIN m.active_note_channels
    THEN LET assigned_channel == m.active_note_channels[finger_id] IN
         [m EXCEPT !.active_note_channels = Drop(@, finger_id),
                   !.available_channels = @ \cup {assigned_channel},
                   !.sent = Append(@,
                      [type |-> "note_off", note |-> note_midi_value,
                       channel |-> assigned_channel - 1])]
    ELSE m

send_pitch_bend(m, finger_id) ==
    IF ~PortUsable(m) THEN m
    ELSE IF finger_id \in DOMAIN m.active_note_channels
    THEN [m EXCEPT !.sent = Append(@,
            [type |-> "pitchwheel", note |-> -1,
             channel |-> m.active_note_channels[finger_id] - 1])]
    ELSE m

send_channel_pressure(m, finger_id) ==
    IF ~PortUsable(m) THEN m
    ELSE IF finger_id \in DOMAIN m.active_note_channels
    THEN [m EXCEPT !.sent = Append(@,
            [type |-> "aftertouch", note |-> -1,
             channel |-> m.active_note_channels[finger_id] - 1])]
    ELSE m

send_control_change(m, finger_id) ==
    IF ~PortUsable(m) THEN m
    ELSE IF finger_id \in DOMAIN m.active_note_channels
    THEN [m EXCEPT !.sent = Append(@,
            [type |-> "control_change", note |-> -1,
             channel |-> m.active_note_channels[finger_id] - 1])]
    ELSE m

\* close_port that closes the port and keeps the assignments.
close_port_NoReclaim(m) == [m EXCEPT !.port = "none"]

close_port(m) ==
    [m EXCEPT !.port = "none",
              !.available_channels = @ \cup Values(m.active_note_channels),
              !.active_note_channels = EmptyMap]

----------------------------------------------------------------------------
(* AudioEngine in 'midi' mode.  s is the engine: the InteractionManager's     *)
(* active_notes and zones, the MidiHandler's fields, and the calls received   *)
(* (events).                                                                  *)

note_on(s, note_midi_value, finger_id, pref) ==
    send_note_on(
        [s EXCEPT !.events = Append(@,
            [type |-> "note_on", fid |-> finger_id, note |-> note_midi_value])],
        note_midi_value, finger_id, pref)

note_off(s, note_midi_value, finger_id) ==
    send_note_off(
        [s EXCEPT !.events = Append(@,
            [type |-> "note_off", fid |-> finger_id, note |-> note_midi_value])],
        note_midi_value, finger_id)

pitch_bend(s, finger_id) ==
    send_pitch_bend(
        [s EXCEPT !.events = Append(@,
            [type |-> "pitch_bend", fid |-> finger_id, note |-> -1])],
        finger_id)

intensity_update(s, finger_id, note_midi_value) ==
    send_channel_pressure(
        [s EXCEPT !.events = Append(@,
            [type |-> "intensity_update", fid |-> finger_id, note |-> note_midi_value])],
        finger_id)

shutdown(s) == close_port(s)

----------------------------------------------------------------------------
(* InteractionManager *)

Min(S) == CHOOSE x \in S : \A y \in S : x <= y

\* A lookup that answers a point inside the first zone when the landmark is
\* not found.
_get_finger_tip_coordinate_Default(hand_landmarks, finger_tip_id) ==
    LET found == {i \in 1..Len(hand_landmarks) :
                     hand_landmarks[i][1] = finger_tip_id} IN
    IF finger_tip_id < Len(hand_landmarks) /\ found # {}
    THEN LET lm_data == hand_landmarks[Min(found)] IN
         <<lm_data[2], lm_data[3], lm_data[4]>>
    ELSE <<1, 1, 0>>

\* hand_landmarks is the list of (lm_id, x, y, z) tuples of one hand.
_get_finger_tip_coordinate(hand_landmarks, finger_tip_id) ==
    IF finger_tip_id < Len(hand_landmarks)
    THEN LET found == {i \in 1..Len(hand_landmarks) :
                          hand_landmarks[i][1] = finger_tip_id} IN
         IF found = {} THEN None
         ELSE LET lm_data == hand_landmarks[Min(found)] IN
              <<lm_data[2], lm_data[3], lm_data[4]>>
    ELSE None

\* f"hand_{hand_idx}"
HandSlotName(hand_idx) ==
    CASE hand_idx = 0 -> "hand_0"
      [] hand_idx = 1 -> "hand_1"
      [] hand_idx = 2 -> "hand_2"
      [] OTHER        -> "hand_3"

\* The identifier the new-note pass gives the hand at list index hand_idx (0-based).
NewNoteHandId(hand, hand_idx) ==
    IF hand.handedness = "Unknown" THEN HandSlotName(hand_idx) ELSE hand.handedness

\* The identifier the active-note pass compares a binding's hand_id with.
CurrentHandId(hand) == hand.handedness

\* Inside the first hand whose current_hand_id is the binding's: extended,
\* landmark present, tip inside the binding's zone.
FingerStillValid(hand, finger_tip_id, zone_idx) ==
    LET finger_name == LANDMARK_ID_TO_FINGER_NAME[finger_tip_id]
        coords == _get_finger_tip_coordinate(hand.landmarks, finger_tip_id)
    IN  /\ hand.finger_states[finger_name] = "extended"
        /\ coords # None
        /\ is_point_inside(ZoneList[zone_idx].rect, coords[1], coords[2])

\* note_data['zone'].deactivate().  A binding holds the NoteZone object it was
\* created with (its index and the generation of the list it came from); the
\* object is in the current zone list only if no generate_layout came between.
\* Deactivating an object of an earlier generation changes no zone of the list.
DeactivateZoneOf(s, note_data) ==
    IF note_data.gen = s.layout_gen
    THEN [s EXCEPT !.zones[note_data.zone] = deactivate(@)]
    ELSE s

\* One iteration of the loop over list(self.active_notes.items()).
\* acc: s (engine), processed (processed_finger_identifiers), remove (notes_to_remove).
ActiveNoteStep(acc, note_data, hands) ==
    LET finger_identifier == note_data.fid
        matches == {i \in 1..Len(hands) : CurrentHandId(hands[i]) = finger_identifier[1]}
        found_finger_in_current_frame == matches # {}
        finger_still_valid_for_note ==
            /\ found_finger_in_current_frame
            /\ FingerStillValid(hands[Min(matches)], finger_identifier[2], note_data.zone)
    IN  IF finger_still_valid_for_note
        THEN [acc EXCEPT
                !.s = intensity_update(pitch_bend(@, finger_identifier),
                                       finger_identifier, note_data.midi_note),
                !.processed = @ \cup {finger_identifier}]
        ELSE [acc EXCEPT
                !.s = DeactivateZoneOf(
                          note_off(@, note_data.midi_note, finger_identifier), note_data),
                !.remove = @ \cup {finger_identifier}]

RECURSIVE ActiveNotesLoop(_, _, _, _)
ActiveNotesLoop(acc, items, i, hands) ==
    IF i > Len(items) THEN acc
    ELSE ActiveNotesLoop(ActiveNoteStep(acc, items[i], hands), items, i + 1, hands)

SelectSeqNotIn(items, remove) ==
    SelectSeq(items, LAMBDA n : n.fid \notin remove)

\* Part 1 without the removal of notes_to_remove from active_notes.
ProcessActiveNotes_KeepsNotes(s, hands) ==
    ActiveNotesLoop([s |-> s, processed |-> {}, remove |-> {}],
                    s.active_notes, 1, hands)

\* Part 1 of process_hands_data, with the removal of notes_to_remove.
ProcessActiveNotes(s, hands) ==
    LET acc == ActiveNotesLoop([s |-> s, processed |-> {}, remove |-> {}],
                               s.active_notes, 1, hands)
    IN  [acc EXCEPT !.s.active_notes = SelectSeqNotIn(@, acc.remove)]

BoundFingers(active) == {active[i].fid : i \in 1..Len(active)}

\* The scan stopping at the last zone of the list that contains the point.
FirstZoneInside_Last(x, y) ==
    LET inside == {z \in ZoneIdx : is_point_inside(ZoneList[z].rect, x, y)} IN
    IF inside = {} THEN 0 ELSE CHOOSE z \in inside : \A w \in inside : w <= z

\* Index of the first zone of the list that contains the point, 0 if none.
FirstZoneInside(x, y) ==
    LET inside == {z \in ZoneIdx : is_point_inside(ZoneList[z].rect, x, y)} IN
    IF inside = {} THEN 0 ELSE Min(inside)

\* A zone that lets any finger in, claimed or not.
ZoneAvailable_Always(zone) == TRUE

\* if not zone.is_active: the zone is available for a new note.
ZoneAvailable(zone) == ~zone.is_active

\* The body of the loop over FINGER_TIP_LANDMARKS for one hand and one finger.
NewNoteStep(acc, hand, hand_idx, finger_name, pref) ==
    LET finger_tip_landmark_id == FINGER_TIP_LANDMARKS[finger_name]
        finger_identifier == <<NewNoteHandId(hand, hand_idx), finger_tip_landmark_id>>
        coords == _get_finger_tip_coordinate(hand.landmarks, finger_tip_landmark_id)
        z == FirstZoneInside(coords[1], coords[2])
    IN  IF finger_tip_landmark_id \notin target_fingers THEN acc
        ELSE IF finger_identifier \in acc.processed THEN acc
        ELSE IF finger_identifier \in BoundFingers(acc.s.active_notes) THEN acc
        ELSE IF hand.finger_states[finger_name] # "extended" THEN acc
        ELSE IF coords = None THEN acc
        ELSE IF z = 0 THEN acc
        ELSE IF ~ZoneAvailable(acc.s.zones[z]) THEN acc
        ELSE [acc EXCEPT
                !.s = LET on == note_on(@, ZoneList[z].note_midi_value,
                                        finger_identifier, pref) IN
                      [on EXCEPT
                         !.zones[z] = activate(@, finger_identifier),
                         !.active_notes = Append(@,
                            [fid |-> finger_identifier, zone |-> z,
                             gen |-> acc.s.layout_gen,
                             initial_y |-> coords[2],
                             midi_note |-> ZoneList[z].note_midi_value])],
                !.processed = @ \cup {finger_identifier}]

\* The two nested loops of part 2, k counting (hand, finger) pairs from 0.
RECURSIVE NewNotesLoop(_, _, _, _)
NewNotesLoop(acc, hands, k, pref) ==
    IF k >= Len(hands) * Len(FingerNames) THEN acc
    ELSE LET hand_idx == k \div Len(FingerNames)
             finger_name == FingerNames[(k % Len(FingerNames)) + 1]
         IN  NewNotesLoop(
                 NewNoteStep(acc, hands[hand_idx + 1], hand_idx, finger_name, pref),
                 hands, k + 1, pref)

\* process_hands_data with the two passes in the other order.
process_hands_data_ClaimsFirst(s, hands, pref) ==
    LET claimed == NewNotesLoop([s |-> s, processed |-> {}, remove |-> {}], hands, 0, pref).s
    IN  ProcessActiveNotes(claimed, hands).s

process_hands_data(s, hands, pref) ==
    NewNotesLoop(ProcessActiveNotes(s, hands), hands, 0, pref).s

RECURSIVE CleanupLoop(_, _, _)
CleanupLoop(s, items, i) ==
    IF i > Len(items) THEN s
    ELSE CleanupLoop(
             DeactivateZoneOf(note_off(s, items[i].midi_note, items[i].fid), items[i]),
             items, i + 1)

cleanup_stale_notes(s) ==
    IF Len(s.active_notes) = 0 THEN s
    ELSE [CleanupLoop(s, s.active_notes, 1) EXCEPT !.active_notes = <<>>]

----------------------------------------------------------------------------
(* Inputs of a frame: the hands_data list the detector reports *)

\* The 21 landmarks (lm_id, x, y, z) of a detected hand, ids 0..20 in order;
\* only the two target tips move.
Landmarks(index_tip, middle_tip) ==
    [i \in 1..21 |->
        CASE i - 1 = FINGER_TIP_LANDMARKS["INDEX"]  -> <<i - 1, index_tip[1], index_tip[2], 0>>
          [] i - 1 = FINGER_TIP_LANDMARKS["MIDDLE"] -> <<i - 1, middle_tip[1], middle_tip[2], 0>>
          [] OTHER -> <<i - 1, 9, 9, 0>>]

\* A finger as the detector reports it: extended at one of the points, or
\* retracted (its tip then stays inside zone 1).
FingerReports ==
    {[state |-> "extended", tip |-> p] : p \in Points}
        \cup {[state |-> "retracted", tip |-> <<1, 1>>]}

HandReport(handedness, index, middle) ==
    [handedness |-> handedness,
     finger_states |-> [n \in DOMAIN FINGER_TIP_LANDMARKS |->
        CASE n = "INDEX"  -> index.state
          [] n = "MIDDLE" -> middle.state
          [] OTHER        -> "retracted"],
     landmarks |-> Landmarks(index.tip, middle.tip)]

HandReports ==
    {HandReport(h, i, m) : h \in Handedness, i \in FingerReports, m \in FingerReports}

HandsInputs == UNION {[1..n -> HandReports] : n \in 0..MaxHands}

\* A hand whose landmark list lacks the entries of the landmark ids in dropped.
HandReportWithout(handedness, index, middle, dropped) ==
    [HandReport(handedness, index, middle) EXCEPT
        !.landmarks = SelectSeq(@, LAMBDA lm : lm[1] \notin dropped)]

\* The landmark ids a list may lack: no entry, one or both target tips, or
\* every entry (get_landmark_positions returns [] without a detection result).
DroppedLandmarks == (SUBSET target_fingers) \cup {0..20}

HandReportsPartial ==
    {HandReportWithout(h, i, m, d) :
        h \in Handedness, i \in FingerReports, m \in FingerReports,
        d \in DroppedLandmarks}

HandsInputsPartial == UNION {[1..n -> HandReportsPartial] : n \in 0..MaxHands}

\* The orders in which set.pop() may yield the channels of the range.
ChannelOrders(range) ==
    LET chs == range[1]..range[2] IN
    {p \in [1..Cardinality(chs) -> chs] : \A i, j \in 1..Cardinality(chs) : p[i] = p[j] => i = j}

----------------------------------------------------------------------------
(* The state machine *)

Engine ==
    [active_notes |-> active_notes,
     zones |-> zones,
     available_channels |-> available_channels,
     active_note_channels |-> active_note_channels,
     port |-> port,
     layout_gen |-> layout_gen,
     sent |-> <<>>,
     events |-> <<>>]

Snapshot(s) ==
    [active_notes |-> s.active_notes,
     zones |-> s.zones,
     available_channels |-> s.available_channels,
     active_note_channels |-> s.active_note_channels]

Install(s) ==
    /\ active_notes' = s.active_notes
    /\ zones' = s.zones
    /\ available_channels' = s.available_channels
    /\ active_note_channels' = s.active_note_channels
    /\ port' = s.port
    /\ sent' = s.sent
    /\ events' = s.events

\* AudioEngine(config), MidiHandler.__init__ with an accepted channel range and
\* a port that did or did not open, InteractionManager.__init__, a fresh layout.
Init ==
    /\ mpe_ch_range \in ChannelRanges
    /\ port \in {"open", "none"}
    /\ available_channels = MidiInit(mpe_ch_range).available_channels
    /\ active_note_channels = MidiInit(mpe_ch_range).active_note_channels
    /\ active_notes = <<>>
    /\ zones = FreshZones
    /\ hands_data = <<>>
    /\ events = <<>>
    /\ sent = <<>>
    /\ layout_gen = 0
    /\ released = Snapshot(Engine)
    /\ op = <<"init">>

\* Application.run: one frame, interaction_manager.process_hands_data(hands_data, zones).
ProcessHandsData ==
    \E hands \in HandsInputs, pref \in ChannelOrders(mpe_ch_range) :
      \E s1 \in {process_hands_data(Engine, hands, pref)} :
        /\ Install(s1)
        /\ released' = Snapshot(ProcessActiveNotes(Engine, hands).s)
        /\ hands_data' = hands
        /\ op' = <<"process_hands_data">>
        /\ UNCHANGED <<mpe_ch_range, layout_gen>>

\* InteractionManager.cleanup_stale_notes()
CleanupStaleNotes ==
    /\ \E s1 \in {cleanup_stale_notes(Engine)} :
          /\ Install(s1)
          /\ released' = Snapshot(s1)
    /\ op' = <<"cleanup_stale_notes">>
    /\ UNCHANGED <<hands_data, mpe_ch_range, layout_gen>>

Next == ProcessHandsData \/ CleanupStaleNotes

Spec == Init /\ [][Next]_vars

----------------------------------------------------------------------------
(* The MidiHandler driven directly *)

MidiHandler ==
    [available_channels |-> available_channels,
     active_note_channels |-> active_note_channels,
     port |-> port,
     sent |-> <<>>]

InstallMidi(m) ==
    /\ available_channels' = m.available_channels
    /\ active_note_channels' = m.active_note_channels
    /\ port' = m.port
    /\ sent' = m.sent
    /\ UNCHANGED <<active_notes, zones, mpe_ch_range, hands_data, events, released,
                   layout_gen>>

\* The finger_id arguments: the identifiers the InteractionManager builds.
MidiFingers ==
    {<<h, t>> : h \in {"Left", "hand_0"}, t \in target_fingers}

MidiNotes == {ZoneList[z].note_midi_value : z \in ZoneIdx}

SendNoteOn ==
    \E finger_id \in MidiFingers, note \in MidiNotes, pref \in ChannelOrders(mpe_ch_range) :
        /\ InstallMidi(send_note_on(MidiHandler, note, finger_id, pref))
        /\ op' = <<"send_note_on", finger_id, note, active_note_channels>>

SendNoteOff ==
    \E finger_id \in MidiFingers, note \in MidiNotes :
        /\ InstallMidi(send_note_off(MidiHandler, note, finger_id))
        /\ op' = <<"send_note_off", finger_id, note, active_note_channels>>

ClosePort ==
    /\ InstallMidi(close_port(MidiHandler))
    /\ op' = <<"close_port", active_note_channels>>

NextMidi == SendNoteOn \/ SendNoteOff \/ ClosePort

SpecMidi == Init /\ [][NextMidi]_vars

----------------------------------------------------------------------------
(* The five send methods of the MidiHandler and close_port, driven directly *)

SendPitchBend ==
    \E finger_id \in MidiFingers :
        /\ InstallMidi(send_pitch_bend(MidiHandler, finger_id))
        /\ op' = <<"send_pitch_bend", finger_id, active_note_channels>>

SendChannelPressure ==
    \E finger_id \in MidiFingers :
        /\ InstallMidi(send_channel_pressure(MidiHandler, finger_id))
        /\ op' = <<"send_channel_pressure", finger_id, active_note_channels>>

SendControlChange ==
    \E finger_id \in MidiFingers :
        /\ InstallMidi(send_control_change(MidiHandler, finger_id))
        /\ op' = <<"send_control_change", finger_id, active_note_channels>>

NextSends ==
    \/ SendNoteOn
    \/ SendNoteOff
    \/ SendPitchBend
    \/ SendChannelPressure
    \/ SendControlChange
    \/ ClosePort

SpecSends == Init /\ [][NextSends]_vars

----------------------------------------------------------------------------
(* Frames whose landmark lists may be incomplete *)

\* process_hands_data(hands_data, zones) with hands whose landmark lists may
\* lack entries.
ProcessHandsDataPartial ==
    \E hands \in HandsInputsPartial, pref \in ChannelOrders(mpe_ch_range) :
      \E s1 \in {process_hands_data(Engine, hands, pref)} :
        /\ Install(s1)
        /\ released' = Snapshot(ProcessActiveNotes(Engine, hands).s)
        /\ hands_data' = hands
        /\ op' = <<"process_hands_data">>
        /\ UNCHANGED <<mpe_ch_range, layout_gen>>

NextPartial == ProcessHandsDataPartial

SpecPartial == Init /\ [][NextPartial]_vars

----------------------------------------------------------------------------
(* Frames on a zone list whose rectangles overlap *)

InitOverlap ==
    /\ mpe_ch_range \in ChannelRanges
    /\ port \in {"open", "none"}
    /\ available_channels = MidiInit(mpe_ch_range).available_channels
    /\ active_note_channels = MidiInit(mpe_ch_range).active_note_channels
    /\ active_notes = <<>>
    /\ zones = NewZones(OverlappingZones)
    /\ hands_data = <<>>
    /\ events = <<>>
    /\ sent = <<>>
    /\ layout_gen = 0
    /\ released = Snapshot(Engine)
    /\ op = <<"init">>

\* process_hands_data(hands_data, zones) with the overlapping list.
NextOverlap == ProcessHandsData

SpecOverlap == InitOverlap /\ [][NextOverlap]_vars

----------------------------------------------------------------------------
(* Application.run and Application.shutdown *)

Running == op[1] # "shutdown"

\* One pass of the while loop up to cv2.waitKey: the frame is handed to
\* process_hands_data with layout_generator.get_zones().
AppFrame ==
    /\ Running
    /\ ProcessHandsData

\* key == ord('r'), read after a frame: layout_generator.regenerate_layout()
\* clears the zone list and fills it with new NoteZone objects built from the
\* same settings.  Nothing else is called.
RegenerateLayout ==
    /\ op[1] = "process_hands_data"
    /\ layout_gen < MaxRegenerations
    /\ zones' = FreshZones
    /\ layout_gen' = layout_gen + 1
    /\ events' = <<>>
    /\ sent' = <<>>
    /\ op' = <<"regenerate_layout">>
    /\ UNCHANGED <<active_notes, available_channels, active_note_channels, port,
                   mpe_ch_range, hands_data, released>>

\* Application.shutdown, reached when the loop ends ('q', ESC, a failed
\* cap.read) or when the camera did not open: audio_engine.shutdown() is the
\* only call that touches the engine.
Shutdown ==
    /\ Running
    /\ \E s1 \in {shutdown(Engine)} : Install(s1)
    /\ op' = <<"shutdown">>
    /\ UNCHANGED <<mpe_ch_range, hands_data, released, layout_gen>>

NextApp == AppFrame \/ RegenerateLayout \/ Shutdown

SpecApp == Init /\ [][NextApp]_vars

----------------------------------------------------------------------------
(* The NoteZone objects of the zone list driven directly *)

IsPointInside ==
    \E z \in ZoneIdx, p \in Points :
        /\ op' = <<"is_point_inside", z, p[1], p[2],
                   is_point_inside(ZoneList[z].rect, p[1], p[2])>>
        /\ UNCHANGED <<active_notes, zones, available_channels, active_note_channels,
                       port, mpe_ch_range, hands_data, events, sent, released,
                       layout_gen>>

Activate ==
    \E z \in ZoneIdx, finger_id \in MidiFingers :
        /\ zones' = [zones EXCEPT ![z] = activate(@, finger_id)]
        /\ op' = <<"activate", z, finger_id>>
        /\ UNCHANGED <<active_notes, available_channels, active_note_channels,
                       port, mpe_ch_range, hands_data, events, sent, released,
                       layout_gen>>

Deactivate ==
    \E z \in ZoneIdx :
        /\ zones' = [zones EXCEPT ![z] = deactivate(@)]
        /\ op' = <<"deactivate", z>>
        /\ UNCHANGED <<active_notes, available_channels, active_note_channels,
                       port, mpe_ch_range, hands_data, events, sent, released,
                       layout_gen>>

NextZone == IsPointInside \/ Activate \/ Deactivate

SpecZone == Init /\ [][NextZone]_vars

----------------------------------------------------------------------------
(* NoteZone.is_point_inside as a function of (rect, point_x, point_y) *)

\* NoteZone(x, y, width, height, ...).rect, sides of length 0 included.
Rects == {<<1, 1, w, h>> : w \in 0..MaxSide, h \in 0..MaxSide}

\* Integer coordinates from one before the min edge to one past the max edge.
Coords == 0..(MaxSide + 2)

InitContain ==
    /\ mpe_ch_range = <<2, 3>>
    /\ port = "none"
    /\ available_channels = MidiInit(mpe_ch_range).available_channels
    /\ active_note_channels = MidiInit(mpe_ch_range).active_note_channels
    /\ active_notes = <<>>
    /\ zones = FreshZones
    /\ hands_data = <<>>
    /\ events = <<>>
    /\ sent = <<>>
    /\ layout_gen = 0
    /\ released = Snapshot(Engine)
    /\ \E rect \in Rects, point_x \in Coords, point_y \in Coords :
          op = <<"args", rect, point_x, point_y>>

Contains ==
    /\ op[1] = "args"
    /\ op' = <<"is_point_inside", op[2], op[3], op[4],
               is_point_inside(op[2], op[3], op[4])>>
    /\ UNCHANGED <<active_notes, zones, available_channels, active_note_channels,
                   port, mpe_ch_range, hands_data, events, sent, released,
                   layout_gen>>

NextContain == Contains

SpecContain == InitContain /\ [][NextContain]_vars

----------------------------------------------------------------------------
(* Functions applied on their own to drawn arguments: the engine is idle and  *)
(* op carries the arguments, then the call with its result.                   *)

engine_vars == <<active_notes, zones, available_channels, active_note_channels,
                 port, mpe_ch_range, hands_data, events, sent, released, layout_gen>>

IdleEngine ==
    /\ mpe_ch_range = <<2, 3>>
    /\ port = "none"
    /\ available_channels = MidiInit(mpe_ch_range).available_channels
    /\ active_note_channels = MidiInit(mpe_ch_range).active_note_channels
    /\ active_notes = <<>>
    /\ zones = FreshZones
    /\ hands_data = <<>>
    /\ events = <<>>
    /\ sent = <<>>
    /\ layout_gen = 0
    /\ released = Snapshot(Engine)

----------------------------------------------------------------------------
(* InteractionManager._get_finger_tip_coordinate as a function *)

\* (lm_id, x, y, z) entries, those of test_get_finger_tip_coordinate among them.
LandmarkEntries == {<<0, 10, 10, 0>>, <<2, 20, 25, 2>>, <<8, 50, 55, 5>>, <<10, 1, 1, 1>>}

LandmarkLists == UNION {[1..n -> LandmarkEntries] : n \in 0..MaxListLen}

LookupIds == {2, 4, 8, 99}

InitLookup ==
    /\ IdleEngine
    /\ \E hand_landmarks \in LandmarkLists, finger_tip_id \in LookupIds :
          op = <<"args", hand_landmarks, finger_tip_id>>

GetFingerTipCoordinate ==
    /\ op[1] = "args"
    /\ op' = <<"_get_finger_tip_coordinate", op[2], op[3],
               _get_finger_tip_coordinate(op[2], op[3])>>
    /\ UNCHANGED engine_vars

NextLookup == GetFingerTipCoordinate

SpecLookup == InitLookup /\ [][NextLookup]_vars

----------------------------------------------------------------------------
(* MidiHandler(config_manager) built from a drawn midi_channel_range, then     *)
(* driven through send_note_on and send_note_off                              *)

ConfigItems ==
    {[kind |-> "int", val |-> n] : n \in {0, 1, 2, 3, 16, 17}}
        \cup {[kind |-> "str", val |-> 0]}

ConfigValues ==
    {[kind |-> "missing", items |-> <<>>], [kind |-> "str", items |-> <<>>]}
        \cup {[kind |-> "list", items |-> items] :
                 items \in UNION {[1..n -> ConfigItems] : n \in 0..3}}

ConfigFingers == {<<"Left", t>> : t \in target_fingers}

InitConfig ==
    /\ IdleEngine
    /\ \E cfg \in ConfigValues : op = <<"config", cfg>>

\* MidiHandler.__init__: the range is validated, the pool filled, the port
\* opened or not.
NewMidiHandler ==
    /\ op[1] = "config"
    /\ mpe_ch_range' = AcceptedChannelRange(op[2])
    /\ available_channels' = MidiInit(mpe_ch_range').available_channels
    /\ active_note_channels' = MidiInit(mpe_ch_range').active_note_channels
    /\ port' \in {"open", "none"}
    /\ sent' = <<>>
    /\ op' = <<"__init__", op[2]>>
    /\ UNCHANGED <<active_notes, zones, hands_data, events, released, layout_gen>>

\* send_note_on on the handler built; set.pop() may yield any available channel.
ConfigSendNoteOn ==
    /\ op[1] # "config"
    /\ \E finger_id \in ConfigFingers :
       \E assigned_channel \in IF available_channels = {} THEN {0}
                                ELSE available_channels :
          /\ InstallMidi(send_note_on(MidiHandler, ZoneList[1].note_midi_value,
                                      finger_id, <<assigned_channel>>))
          /\ op' = <<"send_note_on", finger_id, ZoneList[1].note_midi_value,
                     active_note_channels>>

ConfigSendNoteOff ==
    /\ op[1] # "config"
    /\ \E finger_id \in ConfigFingers :
          /\ InstallMidi(send_note_off(MidiHandler, ZoneList[1].note_midi_value,
                                       finger_id))
          /\ op' = <<"send_note_off", finger_id, ZoneList[1].note_midi_value,
                     active_note_channels>>

NextConfig == NewMidiHandler \/ ConfigSendNoteOn \/ ConfigSendNoteOff

SpecConfig == InitConfig /\ [][NextConfig]_vars

----------------------------------------------------------------------------
(* LayoutGenerator.  A note name is the sequence of its characters.           *)

NOTE_NAMES == << <<"C">>, <<"C", "#">>, <<"D">>, <<"D", "#">>, <<"E">>, <<"F">>,
                 <<"F", "#">>, <<"G">>, <<"G", "#">>, <<"A">>, <<"A", "#">>, <<"B">> >>

Digits == <<"0", "1", "2", "3", "4", "5", "6", "7", "8", "9">>

LowerLetters == <<"a", "b", "c", "d", "e", "f", "g", "h", "i", "j", "k", "l", "m",
                  "n", "o", "p", "q", "r", "s", "t", "u", "v", "w", "x", "y", "z">>

UpperLetters == <<"A", "B", "C", "D", "E", "F", "G", "H", "I", "J", "K", "L", "M",
                  "N", "O", "P", "Q", "R", "S", "T", "U", "V", "W", "X", "Y", "Z">>

\* str.upper() of one character: a lower-case letter becomes its capital, any
\* other character drawn (capitals, digits, '#', '_') stays.
Upper(ch) ==
    IF \E k \in 1..Len(LowerLetters) : LowerLetters[k] = ch
    THEN UpperLetters[CHOOSE k \in 1..Len(LowerLetters) : LowerLetters[k] = ch]
    ELSE ch

UpperAll(str) == [i \in 1..Len(str) |-> Upper(str[i])]

IsDigit(ch) == \E d \in 1..Len(Digits) : Digits[d] = ch

\* int(ch) for a digit character.
DigitValue(ch) == (CHOOSE d \in 1..Len(Digits) : Digits[d] = ch) - 1

\* NOTE_NAMES.index(name), 0-based; InNoteNames tells whether it raises.
InNoteNames(name) == \E k \in 1..Len(NOTE_NAMES) : NOTE_NAMES[k] = name

NoteIndex(name) == (CHOOSE k \in 1..Len(NOTE_NAMES) : NOTE_NAMES[k] = name) - 1

Raised == [raised |-> TRUE, value |-> 0]

Returned(v) == [raised |-> FALSE, value |-> v]

\* NOTE_NAMES[(original_note_index - 1 + 12) % 12]
FlatToSharp(name_part) ==
    LET original_note_index == NoteIndex(<<name_part[1]>>) IN
    NOTE_NAMES[((original_note_index - 1 + 12) % 12) + 1]

\* _get_midi_value(note_name) for a str: the value, or ValueError raised.
_get_midi_value(note_name) ==
    IF Len(note_name) < 2 THEN Raised
    ELSE LET name_part == UpperAll(SubSeq(note_name, 1, Len(note_name) - 1))
             last == note_name[Len(note_name)]
         IN
         IF ~IsDigit(last) THEN Raised
         ELSE LET octave_part == DigitValue(last) IN
              IF InNoteNames(name_part)
              THEN Returned((octave_part + 1) * 12 + NoteIndex(name_part))
              ELSE IF Len(name_part) > 1 /\ name_part[2] = "B"
              THEN IF ~InNoteNames(<<name_part[1]>>) THEN Raised
                   ELSE Returned((octave_part + 1) * 12
                                    + NoteIndex(FlatToSharp(name_part)))
              ELSE Raised

\* str(octave) for the octaves -1..9.
OctaveChars(octave) == IF octave < 0 THEN <<"-", Digits[(-octave) + 1]>>
                       ELSE <<Digits[octave + 1]>>

\* _get_note_name(midi_value) for 0 <= midi_value <= 127
_get_note_name(midi_value) ==
    NOTE_NAMES[(midi_value % 12) + 1] \o OctaveChars((midi_value \div 12) - 1)

RECURSIVE _generate_chromatic_notes(_, _)
_generate_chromatic_notes(start_midi, num_notes) ==
    IF num_notes <= 0 THEN <<>>
    ELSE LET current_midi == start_midi + num_notes - 1
             before == _generate_chromatic_notes(start_midi, num_notes - 1)
         IN  IF 0 <= current_midi /\ current_midi <= 127
             THEN Append(before, <<_get_note_name(current_midi), current_midi>>)
             ELSE before

\* scale_notes_raw read in order: a note whose conversion raises ValueError is
\* skipped (try / except around the append), the others are appended.
RECURSIVE PresetNotesLoop(_)
PresetNotesLoop(scale_notes_raw) ==
    IF scale_notes_raw = <<>> THEN <<>>
    ELSE LET note_str == Head(scale_notes_raw)
             midi == _get_midi_value(note_str)
             rest == PresetNotesLoop(Tail(scale_notes_raw))
         IN  IF midi.raised THEN rest
             ELSE <<<<note_str, midi.value>>>> \o rest

\* for scale in preset_scales: if scale.get('name') == active_scale_name: ...
\* break.  The index of the first scale of that name, 0 when there is none.
RECURSIVE FirstScaleNamed(_, _, _)
FirstScaleNamed(preset_scales, active_scale_name, i) ==
    IF i > Len(preset_scales) THEN 0
    ELSE IF preset_scales[i].name = active_scale_name THEN i
    ELSE FirstScaleNamed(preset_scales, active_scale_name, i + 1)

\* An unknown scale name leaving the note list empty instead of chromatic.
notes_to_display_PresetOnly(cfg, start_midi) ==
    LET i == FirstScaleNamed(cfg.preset_scales, cfg.active_scale, 1) IN
    IF cfg.active_scale # "" /\ i # 0 THEN PresetNotesLoop(cfg.preset_scales[i].notes)
    ELSE IF cfg.active_scale # "" THEN <<>>
    ELSE _generate_chromatic_notes(start_midi, cfg.num_octaves * 12)

\* The note list of generate_layout.  active_scale "" is the unset (falsy)
\* setting.  scale_found is set only when the scale of that name gave at least
\* one note.
notes_to_display(cfg, start_midi) ==
    LET i == FirstScaleNamed(cfg.preset_scales, cfg.active_scale, 1)
        from_scale == IF i = 0 THEN <<>>
                      ELSE PresetNotesLoop(cfg.preset_scales[i].notes)
        scale_found == from_scale # <<>>
    IN  IF cfg.active_scale # ""
        THEN IF scale_found THEN from_scale
             ELSE _generate_chromatic_notes(start_midi, cfg.num_octaves * 12)
        ELSE _generate_chromatic_notes(start_midi, cfg.num_octaves * 12)

\* int(num / den): truncation toward zero
IntOfQuotient(num, den) ==
    IF num >= 0 THEN num \div den ELSE -((-num) \div den)

num_rows == 2

\* row_counts[i % num_rows] += 1 for every note index i
row_counts(num_notes_total) ==
    [r \in 1..num_rows |->
        Cardinality({i \in 0..(num_notes_total - 1) : i % num_rows = r - 1})]

\* The row loop takes the notes in list order: the first row_counts[0] notes
\* fill row 0, the rest fill row 1.
RowOfNote(current_note_index, num_notes_total) ==
    IF current_note_index < row_counts(num_notes_total)[1] THEN 0 ELSE 1

\* The zone built for the note at current_note_index (0-based).
ZoneOfNote(cfg, notes, current_note_index) ==
    LET num_notes_total == Len(notes)
        i_row == RowOfNote(current_note_index, num_notes_total)
        notes_in_current_row == row_counts(num_notes_total)[i_row + 1]
        i_col == IF i_row = 0 THEN current_note_index
                 ELSE current_note_index - row_counts(num_notes_total)[1]
        zone_area_width == cfg.resolution[1] - 2 * cfg.padding
        zone_area_height == cfg.resolution[2] - 2 * cfg.padding
        note == notes[current_note_index + 1]
    IN  [rect |-> << IntOfQuotient(cfg.padding * notes_in_current_row
                                     + i_col * zone_area_width, notes_in_current_row),
                     IntOfQuotient(cfg.padding * num_rows
                                     + i_row * zone_area_height, num_rows),
                     IntOfQuotient(zone_area_width, notes_in_current_row),
                     IntOfQuotient(zone_area_height, num_rows) >>,
         note_name |-> note[1],
         note_midi_value |-> note[2],
         label |-> note[1]]   \* zone_labels off gives None, which NoteZone reads as note_name

\* generate_layout(): the zone list it leaves in self.zones, or the ValueError
\* of an unreadable starting_note, raised after the list was cleared.
generate_layout(cfg) ==
    LET start_midi == _get_midi_value(cfg.starting_note) IN
    IF start_midi.raised THEN [raised |-> TRUE, zones |-> <<>>]
    ELSE LET notes == notes_to_display(cfg, start_midi.value) IN
         [raised |-> FALSE,
          zones |-> [k \in 1..Len(notes) |-> ZoneOfNote(cfg, notes, k - 1)]]

----------------------------------------------------------------------------
(* LayoutGenerator._get_midi_value as a function *)

NoteLetters == {"A", "B", "C", "D", "E", "F", "G"}

\* Note names drawn: a letter (H is not one), no accidental or '#' or 'b', and
\* a last character that is a digit or not; and a name of one character.
NoteTokens ==
    {<<l, o>> : l \in NoteLetters \cup {"H"}, o \in {Digits[d] : d \in 1..10} \cup {"x"}}
      \cup {<<l, a, o>> : l \in NoteLetters \cup {"H"}, a \in {"#", "b"},
                           o \in {Digits[d] : d \in 1..10} \cup {"x"}}
      \cup {<<"C">>}

InitNotes ==
    /\ IdleEngine
    /\ \E note_name \in NoteTokens : op = <<"args", note_name>>

GetMidiValue ==
    /\ op[1] = "args"
    /\ op' = <<"_get_midi_value", op[2], _get_midi_value(op[2])>>
    /\ UNCHANGED engine_vars

NextNotes == GetMidiValue

SpecNotes == InitNotes /\ [][NextNotes]_vars

----------------------------------------------------------------------------
(* LayoutGenerator._get_note_name on every MIDI value, then _get_midi_value on *)
(* the name it returned                                                        *)

\* The values _get_note_name accepts: 0 <= midi_value <= 127
MidiValues == 0..127

InitRoundTrip ==
    /\ IdleEngine
    /\ \E midi_value \in MidiValues : op = <<"args", midi_value>>

GetNoteName ==
    /\ op[1] = "args"
    /\ op' = <<"_get_note_name", op[2], _get_note_name(op[2])>>
    /\ UNCHANGED engine_vars

GetMidiValueOfName ==
    /\ op[1] = "_get_note_name"
    /\ op' = <<"_get_midi_value", op[2], op[3], _get_midi_value(op[3])>>
    /\ UNCHANGED engine_vars

NextRoundTrip == GetNoteName \/ GetMidiValueOfName

SpecRoundTrip == InitRoundTrip /\ [][NextRoundTrip]_vars

----------------------------------------------------------------------------
(* LayoutGenerator.generate_layout on drawn settings *)

C4 == <<"C", "4">>

\* Preset note tokens: four that convert (one a flat, one in the highest octave
\* a digit can name) and two that do not (an unknown letter, a last character
\* that is no digit).
PresetTokens ==
    {C4, <<"E", "4">>, <<"D", "b", "4">>, <<"A", "9">>, <<"H", "4">>, <<"C", "x">>}

PresetNoteLists ==
    UNION {[1..n -> PresetTokens] : n \in 0..MaxListLen}

Scale(name, notes) == [name |-> name, notes |-> notes]

PresetScaleLists ==
    {<<>>}
      \cup {<<Scale("Major", notes)>> : notes \in PresetNoteLists}
      \cup {<<Scale("Blues", <<C4>>), Scale("Major", notes)>> :
                notes \in {<<>>, <<C4, <<"E", "4">>>>, <<<<"H", "4">>>>}}
      \cup {<<Scale("Major", notes), Scale("Major", <<C4>>)>> :
                notes \in {<<>>, <<<<"E", "4">>>>, <<<<"C", "x">>>>}}

\* G9 is 127 and F9 is 125: a chromatic run from there leaves 0..127.
LayoutConfigs ==
    [resolution : {<<1280, 720>>, <<101, 51>>},
     padding : {0, 10},
     starting_note : {C4, <<"F", "9">>, <<"H", "4">>},
     num_octaves : 0..2,
     active_scale : {"", "Major", "Dorian"},
     preset_scales : PresetScaleLists]

InitLayout ==
    /\ IdleEngine
    /\ \E cfg \in LayoutConfigs : op = <<"config", cfg>>

GenerateLayout ==
    /\ op[1] = "config"
    /\ op' = <<"generate_layout", op[2], generate_layout(op[2])>>
    /\ UNCHANGED engine_vars

NextLayout == GenerateLayout

SpecLayout == InitLayout /\ [][NextLayout]_vars

----------------------------------------------------------------------------
(* PitchBendProcessor and VelocityIntensityProcessor.  The fractions of the    *)
(* code are kept exact as a numerator over the zone's side.                    *)

midi_bend_max_abs_value == 8191

midi_min_value == 0

midi_max_value == 127

\* max(0.0, min(1.0, (position - zone_origin) / zone_side)) as a numerator over
\* zone_side, for zone_side > 0
RelativePosition(position, zone_origin, zone_side) ==
    IF position - zone_origin < 0 THEN 0
    ELSE IF position - zone_origin > zone_side THEN zone_side
    ELSE position - zone_origin

\* _map_value(num / den, 0.0, 1.0, to_low, to_high), as a numerator over den
MapValue(num, den, to_low, to_high) ==
    to_low * den + num * (to_high - to_low)

\* round(num / den) for den > 0: to the nearest integer, a half to the even one
Round(num, den) ==
    LET floor == num \div den
        twice_rest == 2 * (num - floor * den)
    IN  IF twice_rest < den THEN floor
        ELSE IF twice_rest > den THEN floor + 1
        ELSE IF floor % 2 = 0 THEN floor ELSE floor + 1

\* The bend mapped onto -8192..8191 and left unclamped.
calculate_pitch_bend_FullRange(finger_x_position, zone_rect) ==
    LET zone_x == zone_rect[1]
        zone_width == zone_rect[3]
    IN  IF zone_width = 0 THEN 0
        ELSE Round(MapValue(RelativePosition(finger_x_position, zone_x, zone_width),
                            zone_width, -midi_bend_max_abs_value - 1,
                            midi_bend_max_abs_value),
                   zone_width)

calculate_pitch_bend(finger_x_position, zone_rect) ==
    LET zone_x == zone_rect[1]
        zone_width == zone_rect[3]
        bend_value == Round(MapValue(RelativePosition(finger_x_position, zone_x, zone_width),
                                     zone_width, -midi_bend_max_abs_value,
                                     midi_bend_max_abs_value),
                            zone_width)
    IN  IF zone_width = 0 THEN 0
        ELSE IF bend_value < -midi_bend_max_abs_value THEN -midi_bend_max_abs_value
        ELSE IF bend_value > midi_bend_max_abs_value THEN midi_bend_max_abs_value
        ELSE bend_value

\* VelocityIntensityProcessor._map_value clamps its result to [to_low, to_high]
\* (to_low < to_high), here on the numerator.
MapValueClamped(num, den, to_low, to_high) ==
    LET mapped_value == MapValue(num, den, to_low, to_high) IN
    IF mapped_value < to_low * den THEN to_low * den
    ELSE IF mapped_value > to_high * den THEN to_high * den
    ELSE mapped_value

\* The velocity cut to an integer by int() alone, without round().
calculate_initial_velocity_Truncating(finger_y_position, zone_rect) ==
    LET zone_y == zone_rect[2]
        zone_height == zone_rect[4]
    IN  IF zone_height = 0 THEN midi_min_value
        ELSE MapValueClamped(RelativePosition(finger_y_position, zone_y, zone_height),
                             zone_height, midi_min_value, midi_max_value)
                 \div zone_height

calculate_initial_velocity(finger_y_position, zone_rect) ==
    LET zone_y == zone_rect[2]
        zone_height == zone_rect[4]
    IN  IF zone_height = 0 THEN midi_min_value
        ELSE Round(MapValueClamped(RelativePosition(finger_y_position, zone_y, zone_height),
                                   zone_height, midi_min_value, midi_max_value),
                   zone_height)

calculate_continuous_intensity(finger_y_position, zone_rect) ==
    LET zone_y == zone_rect[2]
        zone_height == zone_rect[4]
    IN  IF zone_height = 0 THEN midi_min_value
        ELSE Round(MapValueClamped(RelativePosition(finger_y_position, zone_y, zone_height),
                                   zone_height, midi_min_value, midi_max_value),
                   zone_height)

MaxExprSide == 5

MaxCoord == 305

\* Zone rectangles (x, y, width, height): the two of the processors' tests,
\* squares of side 0..MaxExprSide, and a side of 254, where every odd offset
\* maps onto a half.
ExprRects ==
    {<<100, 0, 200, 100>>, <<50, 100, 100, 200>>, <<0, 0, 254, 254>>}
      \cup {<<1, 1, side, side>> : side \in 0..MaxExprSide}

\* Integer fingertip coordinates, from left of and above every zone to right
\* of and below it.
ExprCoords == (-2)..MaxCoord

InitExpression ==
    /\ IdleEngine
    /\ \E position \in ExprCoords, zone_rect \in ExprRects :
           op = <<"args", position, zone_rect>>

CalculatePitchBend ==
    /\ op[1] = "args"
    /\ op' = <<"calculate_pitch_bend", op[2], op[3], calculate_pitch_bend(op[2], op[3])>>
    /\ UNCHANGED engine_vars

CalculateInitialVelocity ==
    /\ op[1] = "args"
    /\ op' = <<"calculate_initial_velocity", op[2], op[3],
               calculate_initial_velocity(op[2], op[3])>>
    /\ UNCHANGED engine_vars

CalculateContinuousIntensity ==
    /\ op[1] = "args"
    /\ op' = <<"calculate_continuous_intensity", op[2], op[3],
               calculate_continuous_intensity(op[2], op[3])>>
    /\ UNCHANGED engine_vars

NextExpression ==
    \/ CalculatePitchBend
    \/ CalculateInitialVelocity
    \/ CalculateContinuousIntensity

SpecExpression == InitExpression /\ [][NextExpression]_vars

----------------------------------------------------------------------------
(* InteractionManager.__init__ on drawn settings, then frames in which a       *)
(* finger that is no target finger may be extended                             *)

\* The keys of FINGER_TIP_LANDMARKS, character by character.
FingerNameChars == [n \in DOMAIN FINGER_TIP_LANDMARKS |->
    CASE n = "THUMB"  -> <<"T", "H", "U", "M", "B">>
      [] n = "INDEX"  -> <<"I", "N", "D", "E", "X">>
      [] n = "MIDDLE" -> <<"M", "I", "D", "D", "L", "E">>
      [] n = "RING"   -> <<"R", "I", "N", "G">>
      [] n = "PINKY"  -> <<"P", "I", "N", "K", "Y">>]

\* name.upper() in FINGER_TIP_LANDMARKS
InFingerTipLandmarks(name) ==
    \E n \in DOMAIN FINGER_TIP_LANDMARKS : FingerNameChars[n] = UpperAll(name)

\* FINGER_TIP_LANDMARKS[name.upper()]
TipOfName(name) ==
    FINGER_TIP_LANDMARKS[CHOOSE n \in DOMAIN FINGER_TIP_LANDMARKS :
                             FingerNameChars[n] = UpperAll(name)]

\* The names of the setting 'allowed_fingers', ['INDEX'] when the key is absent.
AllowedFingerNames(cfg) ==
    IF cfg.allowed_fingers.kind = "missing" THEN <<FingerNameChars["INDEX"]>>
    ELSE cfg.allowed_fingers.names

\* get_setting('use_all_fingers', True)
UseAllFingers(cfg) == cfg.use_all_fingers \in {"True", "missing"}

\* __init__ without the fallback to the INDEX finger.
InitTargetFingers_NoFallback(cfg) ==
    LET allowed_finger_names == AllowedFingerNames(cfg) IN
    IF UseAllFingers(cfg)
    THEN {FINGER_TIP_LANDMARKS[n] : n \in DOMAIN FINGER_TIP_LANDMARKS}
    ELSE {TipOfName(allowed_finger_names[i]) :
             i \in {j \in 1..Len(allowed_finger_names) :
                        InFingerTipLandmarks(allowed_finger_names[j])}}

\* self.target_fingers as InteractionManager.__init__ leaves it.
InitTargetFingers(cfg) ==
    LET allowed_finger_names == AllowedFingerNames(cfg)
        added == {TipOfName(allowed_finger_names[i]) :
                     i \in {j \in 1..Len(allowed_finger_names) :
                                InFingerTipLandmarks(allowed_finger_names[j])}}
    IN  IF UseAllFingers(cfg)
        THEN {FINGER_TIP_LANDMARKS[n] : n \in DOMAIN FINGER_TIP_LANDMARKS}
        ELSE IF added = {} THEN {FINGER_TIP_LANDMARKS["INDEX"]}
        ELSE added

\* Finger names a configuration may list: two keys as written, one in lower
\* case, one in mixed case, and the unknown name of the tests.
DrawnFingerNames ==
    {FingerNameChars["INDEX"], FingerNameChars["MIDDLE"],
     <<"m", "i", "d", "d", "l", "e">>, <<"P", "i", "n", "k", "y">>,
     <<"I", "N", "V", "A", "L", "I", "D", "_", "F", "I", "N", "G", "E", "R">>}

FingerConfigs ==
    [use_all_fingers : {"True", "False", "missing"},
     allowed_fingers : {[kind |-> "missing", names |-> <<>>]}
         \cup {[kind |-> "list", names |-> names] :
                  names \in UNION {[1..n -> DrawnFingerNames] : n \in 0..2}}]

\* A hand of HandReport whose RING finger, no target finger, is extended with
\* its tip at the given point or retracted.
HandReportRing(handedness, index, middle, ring) ==
    [HandReport(handedness, index, middle) EXCEPT
        !.finger_states["RING"] = ring.state,
        !.landmarks[FINGER_TIP_LANDMARKS["RING"] + 1] =
            <<FINGER_TIP_LANDMARKS["RING"], ring.tip[1], ring.tip[2], 0>>]

RingReports ==
    {[state |-> "extended", tip |-> <<1, 1>>], [state |-> "retracted", tip |-> <<1, 1>>]}

HandsInputsRing ==
    UNION {[1..n -> {HandReportRing(h, i, m, r) :
                        h \in Handedness, i \in FingerReports, m \in FingerReports,
                        r \in RingReports}] : n \in 0..MaxHands}

InitFingers ==
    /\ mpe_ch_range \in ChannelRanges
    /\ port \in {"open", "none"}
    /\ available_channels = MidiInit(mpe_ch_range).available_channels
    /\ active_note_channels = MidiInit(mpe_ch_range).active_note_channels
    /\ active_notes = <<>>
    /\ zones = FreshZones
    /\ hands_data = <<>>
    /\ events = <<>>
    /\ sent = <<>>
    /\ layout_gen = 0
    /\ released = Snapshot(Engine)
    /\ \E cfg \in FingerConfigs : op = <<"config", cfg>>

\* InteractionManager.__init__: active_notes = {} and the target fingers.
NewInteractionManager ==
    /\ op[1] = "config"
    /\ op' = <<"__init__", op[2], InitTargetFingers(op[2])>>
    /\ UNCHANGED engine_vars

\* process_hands_data on a manager whose target_fingers are those of the
\* model, INDEX and MIDDLE.
ProcessHandsDataFingers ==
    /\ \/ op[1] = "__init__" /\ op[3] = target_fingers
       \/ op[1] = "process_hands_data"
    /\ \E hands \in HandsInputsRing, pref \in ChannelOrders(mpe_ch_range) :
         \E s1 \in {process_hands_data(Engine, hands, pref)} :
           /\ Install(s1)
           /\ released' = Snapshot(ProcessActiveNotes(Engine, hands).s)
           /\ hands_data' = hands
           /\ op' = <<"process_hands_data">>
           /\ UNCHANGED <<mpe_ch_range, layout_gen>>

NextFingers == NewInteractionManager \/ ProcessHandsDataFingers

SpecFingers == InitFingers /\ [][NextFingers]_vars

----------------------------------------------------------------------------
(* Vocabulary of the properties *)

IsFrame == op[1] = "process_hands_data"

\* The position a full 21-landmark hand reports for a tip.
ReportedTip(hand, tip_id) ==
    <<hand.landmarks[tip_id + 1][2], hand.landmarks[tip_id + 1][3]>>

\* The hands of a frame that carry the hand identity of finger fid, by list index.
HandsOf(hands, fid) ==
    {i \in 1..Len(hands) : NewNoteHandId(hands[i], i - 1) = fid[1]}

HandAbsent(hands, fid) == HandsOf(hands, fid) = {}

\* The hand of fid reports the finger as extended.
ReportsExtended(hands, fid) ==
    /\ ~HandAbsent(hands, fid)
    /\ hands[Min(HandsOf(hands, fid))]
            .finger_states[LANDMARK_ID_TO_FINGER_NAME[fid[2]]] = "extended"

\* The hand of fid reports the fingertip inside zone z.
ReportsTipInside(hands, fid, z) ==
    /\ ~HandAbsent(hands, fid)
    /\ LET tip == ReportedTip(hands[Min(HandsOf(hands, fid))], fid[2]) IN
       is_point_inside(ZoneList[z].rect, tip[1], tip[2])

\* The engine calls of kind type made for finger fid, in order.
CallsFor(ev, fid) == SelectSeq(ev, LAMBDA e : e.fid = fid)

CallTypes(ev) == [i \in 1..Len(ev) |-> ev[i].type]

CountCalls(ev, type, fid) ==
    Cardinality({i \in 1..Len(ev) : ev[i].type = type /\ ev[i].fid = fid})

IsBound(notes, fid) == \E i \in 1..Len(notes) : notes[i].fid = fid

BindingOf(notes, fid) == notes[CHOOSE i \in 1..Len(notes) : notes[i].fid = fid]

ZoneFree(zs, z) == ~zs[z].is_active /\ zs[z].active_finger_id = None

ZoneClaimedBy(zs, z, fid) == zs[z].is_active /\ zs[z].active_finger_id = fid

\* Every finger identifier a frame can produce.
AllFingers ==
    {<<h, t>> : h \in (Handedness \ {"Unknown"}) \cup {HandSlotName(i) : i \in 0..(MaxHands - 1)},
                t \in target_fingers}

----------------------------------------------------------------------------
(* C1: claim idempotence.  In a frame in which the hand of a bound finger      *)
(* reports the finger extended with its tip inside the bound zone, the only   *)
(* calls made for the finger are one pitch_bend and one intensity_update: no  *)
(* second note_on and no note_off.                                            *)

SustainedIn(notes, hands, fid) ==
    /\ IsBound(notes, fid)
    /\ ReportsExtended(hands, fid)
    /\ ReportsTipInside(hands, fid, BindingOf(notes, fid).zone)

C1_ClaimIdempotence ==
    [][op'[1] = "process_hands_data" =>
        \A fid \in AllFingers :
            SustainedIn(active_notes, hands_data', fid) =>
                CallTypes(CallsFor(events', fid)) = <<"pitch_bend", "intensity_update">>]_vars

\* The same for the fingers of a hand whose handedness is known.
C1_KnownHands ==
    [][op'[1] = "process_hands_data" =>
        \A fid \in AllFingers :
            (fid[1] \in Handedness /\ SustainedIn(active_notes, hands_data', fid)) =>
                CallTypes(CallsFor(events', fid)) = <<"pitch_bend", "intensity_update">>]_vars

----------------------------------------------------------------------------
(* C2: release completeness.  For every binding (f, zone): in a frame in which *)
(* f's hand is absent, or reports the finger not extended, or reports the tip *)
(* outside the bound zone, exactly one note_off(note_id, f) is emitted, and    *)
(* when the release pass is over the zone is Free, f has no binding and the    *)
(* channel f held is in the available set.  (The new-note pass of the same     *)
(* frame may claim the zone and the channel again.)                            *)

ReleaseDue(notes, hands, fid) ==
    /\ IsBound(notes, fid)
    /\ \/ HandAbsent(hands, fid)
       \/ ~ReportsExtended(hands, fid)
       \/ ~ReportsTipInside(hands, fid, BindingOf(notes, fid).zone)

NoteOffsFor(ev, fid, note) ==
    {i \in 1..Len(ev) : ev[i] = [type |-> "note_off", fid |-> fid, note |-> note]}

----------------------------------------------------------------------------
(* C3: single ownership.  While zone z is Claimed by finger f and f is not     *)
(* released, a frame in which a different extended target finger g has its    *)
(* tip inside z emits no note_on for g, creates no binding for g and leaves   *)
(* the zone as it was, owned by f.                                            *)

C3_SingleOwnership ==
    [][op'[1] = "process_hands_data" =>
        \A z \in ZoneIdx : \A f, g \in AllFingers :
            ( /\ ZoneClaimedBy(zones, z, f)
              /\ g # f
              /\ CountCalls(events', "note_off", f) = 0
              /\ ReportsExtended(hands_data', g)
              /\ ReportsTipInside(hands_data', g, z) )
            => /\ CountCalls(events', "note_on", g) = 0
               /\ ~IsBound(active_notes', g)
               /\ zones'[z] = zones[z]
               /\ ZoneClaimedBy(zones', z, f)]_vars

\* A frame in which the owner of a zone was sustained while another extended
\* finger had its tip inside the same zone.
C3_Witness ==
    /\ IsFrame
    /\ \E z \in ZoneIdx : \E f, g \in AllFingers :
          /\ g # f
          /\ ZoneClaimedBy(zones, z, f)
          /\ CallTypes(CallsFor(events, f)) = <<"pitch_bend", "intensity_update">>
          /\ ReportsExtended(hands_data, g)
          /\ ReportsTipInside(hands_data, g, z)
          /\ ~IsBound(active_notes, g)

----------------------------------------------------------------------------
(* C4: exhaustion at claim time drops the whole attempt.  In a frame in which  *)
(* an unbound extended target finger has its tip inside a Free zone while the *)
(* port is open and the pool has no available channel, no binding is created *)
(* for the finger, the zone stays Free and no note_on message is sent.        *)

C4_ExhaustionDropsAttempt ==
    [][op'[1] = "process_hands_data" =>
        \A z \in ZoneIdx : \A g \in AllFingers :
            ( /\ port = "open"
              /\ available_channels = {}
              /\ released'.available_channels = {}
              /\ ~IsBound(active_notes, g)
              /\ g \notin DOMAIN active_note_channels
              /\ ZoneFree(zones, z)
              /\ ReportsExtended(hands_data', g)
              /\ ReportsTipInside(hands_data', g, z) )
            => /\ ~IsBound(active_notes', g)
               /\ ZoneFree(zones', z)
               /\ \A k \in 1..Len(sent') : sent'[k].type # "note_on"]_vars

----------------------------------------------------------------------------
(* C5: zone/binding consistency.  After every call, zone Z is Claimed by f     *)
(* exactly when one binding references Z and that binding's key is f; a zone  *)
(* that is not Claimed is Free and referenced by no binding; no zone is       *)
(* referenced by two bindings.                                                *)

BindingsOn(notes, z) == {i \in 1..Len(notes) : notes[i].zone = z}

C5_ZoneBindingConsistency ==
    \A z \in ZoneIdx :
        /\ Cardinality(BindingsOn(active_notes, z)) <= 1
        /\ zones[z].is_active \/ ZoneFree(zones, z)
        /\ ZoneFree(zones, z) => BindingsOn(active_notes, z) = {}
        /\ \A f \in AllFingers :
              ZoneClaimedBy(zones, z, f) <=>
                  \E i \in 1..Len(active_notes) :
                      /\ BindingsOn(active_notes, z) = {i}
                      /\ active_notes[i].fid = f
        /\ zones[z].is_active => zones[z].active_finger_id \in AllFingers

\* After a frame that released one finger, one zone is Claimed and another is Free.
C5_Witness ==
    /\ IsFrame
    /\ \E e \in 1..Len(events) : events[e].type = "note_off"
    /\ \E z1, z2 \in ZoneIdx : \E f \in AllFingers :
          /\ ZoneClaimedBy(zones, z1, f)
          /\ ZoneFree(zones, z2)

----------------------------------------------------------------------------
(* C8: every binding has a distinct channel.  While the port is open, after    *)
(* every frame each finger with an entry in active_notes has an entry in      *)
(* active_note_channels, no two of them hold the same channel, and the number *)
(* of bindings does not exceed the pool capacity.                             *)

PoolCapacity == Cardinality(mpe_ch_range[1]..mpe_ch_range[2])

C8_BindingsHaveDistinctChannels ==
    port = "open" =>
        /\ \A i \in 1..Len(active_notes) : active_notes[i].fid \in DOMAIN active_note_channels
        /\ \A i, j \in 1..Len(active_notes) :
              (i # j /\ active_notes[i].fid \in DOMAIN active_note_channels
                     /\ active_notes[j].fid \in DOMAIN active_note_channels)
              => active_note_channels[active_notes[i].fid]
                    # active_note_channels[active_notes[j].fid]
        /\ Len(active_notes) <= PoolCapacity

----------------------------------------------------------------------------
(* C10: releases before new claims.  Among the calls one process_hands_data   *)
(* makes on the audio engine, every note_off precedes every note_on.          *)

C10_ReleasesBeforeClaims ==
    \A i, j \in 1..Len(events) :
        (events[i].type = "note_off" /\ events[j].type = "note_on") => i < j

\* A frame that both released a binding and claimed a zone.
C10_Witness ==
    /\ IsFrame
    /\ \E i, j \in 1..Len(events) :
          events[i].type = "note_off" /\ events[j].type = "note_on"

----------------------------------------------------------------------------
(* C6: channel exclusivity.  After any sequence of send_note_on, send_note_off *)
(* and close_port calls no channel is both available and assigned, and no     *)
(* channel is assigned to two fingers.                                        *)

C6_ChannelExclusivity ==
    /\ available_channels \cap Values(active_note_channels) = {}
    /\ \A f, g \in DOMAIN active_note_channels :
          active_note_channels[f] = active_note_channels[g] => f = g

\* Two fingers hold channels at once, after a send_note_on.
C6_Witness ==
    /\ op[1] = "send_note_on"
    /\ Cardinality(DOMAIN active_note_channels) = 2
    /\ Len(sent) = 1

----------------------------------------------------------------------------
(* C7: channel conservation.  After any sequence of send_note_on,              *)
(* send_note_off and close_port calls the available channels together with    *)
(* the assigned ones are exactly the configured range low..high.              *)

C7_ChannelConservation ==
    available_channels \cup Values(active_note_channels)
        = mpe_ch_range[1]..mpe_ch_range[2]

\* A send_note_off has just handed a channel back while another finger still
\* holds one.
C7_Witness ==
    /\ op[1] = "send_note_off"
    /\ Len(sent) = 1
    /\ available_channels # {}
    /\ DOMAIN active_note_channels # {}

----------------------------------------------------------------------------
(* C9: exhaustion does not change the allocator.  With the port open and every *)
(* channel assigned, send_note_on for a finger that holds no channel sends no *)
(* message and leaves available_channels and active_note_channels as they     *)
(* were.                                                                      *)

C9_ExhaustionNonMutating ==
    [][( /\ op'[1] = "send_note_on"
         /\ port = "open"
         /\ available_channels = {}
         /\ op'[2] \notin DOMAIN active_note_channels )
       => /\ sent' = <<>>
          /\ available_channels' = available_channels
          /\ active_note_channels' = active_note_channels]_vars

\* A send_note_on has just been refused: the port is open, the pool is empty
\* and the finger of the call holds no channel.
C9_Witness ==
    /\ op[1] = "send_note_on"
    /\ port = "open"
    /\ available_channels = {}
    /\ op[2] \notin DOMAIN active_note_channels
    /\ Cardinality(DOMAIN active_note_channels) = PoolCapacity
    /\ sent = <<>>

----------------------------------------------------------------------------
(* C11: all hands lost.  A frame with an empty hands list emits exactly one    *)
(* note_off per existing binding and nothing else, releases every bound zone, *)
(* returns every bound finger's channel and leaves active_notes empty; a      *)
(* cleanup_stale_notes call that follows that frame emits no further note_off. *)

C11_AllHandsLost ==
    [][ /\ (op'[1] = "process_hands_data" /\ hands_data' = <<>>) =>
            /\ \A i \in 1..Len(active_notes) :
                  LET b == active_notes[i] IN
                  /\ Cardinality(NoteOffsFor(events', b.fid, b.midi_note)) = 1
                  /\ CountCalls(events', "note_off", b.fid) = 1
                  /\ ZoneFree(zones', b.zone)
                  /\ b.fid \notin DOMAIN active_note_channels'
                  /\ b.fid \in DOMAIN active_note_channels =>
                        active_note_channels[b.fid] \in available_channels'
            /\ Len(events') = Len(active_notes)
            /\ active_notes' = <<>>
        /\ ( /\ op'[1] = "cleanup_stale_notes"
             /\ op[1] = "process_hands_data"
             /\ hands_data = <<>> ) => events' = <<>> ]_vars

\* An empty frame has just released two bindings, each with its note_off
\* message on the wire.
C11_Witness ==
    /\ IsFrame
    /\ hands_data = <<>>
    /\ active_notes = <<>>
    /\ Len(events) = 2
    /\ Len(sent) = 2
    /\ available_channels = mpe_ch_range[1]..mpe_ch_range[2]

----------------------------------------------------------------------------
(* C12: shutdown drains bindings first.  When Application.shutdown runs while  *)
(* bindings exist, a note_off is emitted for every binding and its zone is    *)
(* released; after shutdown no binding exists and no zone is Claimed.  Stated *)
(* for a shutdown that finds the port open.                                   *)

C12_ShutdownDrainsBindings ==
    [][(op'[1] = "shutdown" /\ port = "open") =>
        /\ \A i \in 1..Len(active_notes) :
              CountCalls(events', "note_off", active_notes[i].fid) = 1
        /\ active_notes' = <<>>
        /\ \A z \in ZoneIdx : ZoneFree(zones', z)]_vars

----------------------------------------------------------------------------
(* C13: regeneration invalidates in-flight claims.  Bindings that exist when  *)
(* the 'r' key regenerates the layout are released before the zone list is    *)
(* rebuilt: after the regeneration no binding is left, and after every later  *)
(* frame each binding references a NoteZone of the current zone list.         *)

C13_RegenerationInvalidatesClaims ==
    /\ op[1] = "regenerate_layout" => active_notes = <<>>
    /\ op[1] = "process_hands_data" =>
          \A i \in 1..Len(active_notes) : active_notes[i].gen = layout_gen

\* The later frame alone: after a frame every binding references a zone of
\* the current list.
C13_LaterFrames ==
    op[1] = "process_hands_data" =>
        \A i \in 1..Len(active_notes) : active_notes[i].gen = layout_gen

----------------------------------------------------------------------------
(* C14: recovery after exhaustion.  A finger g of a hand of known handedness   *)
(* ended the previous frame extended inside zone z, owned by no other finger, *)
(* without a channel while the port was open and the pool was empty: its      *)
(* claim was dropped.  If in this frame g is still extended inside z and a     *)
(* channel is available once the releases are done, g is given a channel and  *)
(* a note_on is emitted for it; the fingers sustained in this frame keep      *)
(* their channels.                                                            *)

ClaimWasDropped(g, z) ==
    /\ op[1] = "process_hands_data"
    /\ port = "open"
    /\ available_channels = {}
    /\ g \notin DOMAIN active_note_channels
    /\ ReportsExtended(hands_data, g)
    /\ ReportsTipInside(hands_data, g, z)
    /\ zones[z].active_finger_id \in {None, g}

C14_RecoveryAfterExhaustion ==
    [][op'[1] = "process_hands_data" =>
        \A z \in ZoneIdx : \A g \in AllFingers :
            ( /\ g[1] \in Handedness
              /\ ClaimWasDropped(g, z)
              /\ ReportsExtended(hands_data', g)
              /\ ReportsTipInside(hands_data', g, z)
              /\ released'.available_channels # {} )
            => /\ g \in DOMAIN active_note_channels'
               /\ CountCalls(events', "note_on", g) = 1
               /\ \E k \in 1..Len(sent') : sent'[k].type = "note_on"
               /\ \A f \in DOMAIN active_note_channels :
                     CountCalls(events', "note_off", f) = 0 =>
                        /\ f \in DOMAIN active_note_channels'
                        /\ active_note_channels'[f] = active_note_channels[f]]_vars

----------------------------------------------------------------------------
(* C15: slot-index identity is matched in the sustain pass.  A binding whose   *)
(* hand identity is 'hand_<index>' (handedness 'Unknown') is sustained in a    *)
(* frame that reports an 'Unknown' hand at the same list index with the       *)
(* finger still extended inside the bound zone: the frame emits no note_off   *)
(* and no note_on for the finger and the binding stays.                       *)

C15_SlotIdentitySustained ==
    [][op'[1] = "process_hands_data" =>
        \A fid \in AllFingers :
            ( /\ fid[1] \notin Handedness
              /\ SustainedIn(active_notes, hands_data', fid) )
            => /\ CountCalls(events', "note_off", fid) = 0
               /\ CountCalls(events', "note_on", fid) = 0
               /\ IsBound(released'.active_notes, fid)]_vars

----------------------------------------------------------------------------
(* C16: assign is idempotent for a holder.  send_note_on for a finger that     *)
(* already holds a channel sends the note_on on exactly that channel and      *)
(* leaves available_channels and active_note_channels unchanged, whatever the *)
(* pool holds, an exhausted pool included.                                    *)

C16_AssignIdempotentForHolder ==
    [][( /\ op'[1] = "send_note_on"
         /\ op'[2] \in DOMAIN active_note_channels )
       => /\ sent' = <<[type |-> "note_on", note |-> op'[3],
                        channel |-> active_note_channels[op'[2]] - 1]>>
          /\ available_channels' = available_channels
          /\ active_note_channels' = active_note_channels]_vars

\* A send_note_on has just been made for a finger that held a channel while
\* the pool was exhausted, and the note_on went out on that channel.
C16_Witness ==
    /\ op[1] = "send_note_on"
    /\ op[2] \in DOMAIN op[4]
    /\ available_channels = {}
    /\ active_note_channels = op[4]
    /\ Len(sent) = 1
    /\ sent[1].channel = op[4][op[2]] - 1

----------------------------------------------------------------------------
(* C17: release returns exactly one channel.  send_note_off for a finger that  *)
(* holds channel c removes only that finger's mapping, adds only c to         *)
(* available_channels and sends the note_off on c; send_note_off for a finger *)
(* with no assignment sends no message and changes neither                    *)
(* available_channels nor active_note_channels.                               *)

C17_ReleaseReturnsOneChannel ==
    [][op'[1] = "send_note_off" =>
        IF op'[2] \in DOMAIN active_note_channels
        THEN LET c == active_note_channels[op'[2]] IN
             /\ active_note_channels' = Drop(active_note_channels, op'[2])
             /\ available_channels' = available_channels \cup {c}
             /\ c \notin available_channels
             /\ sent' = <<[type |-> "note_off", note |-> op'[3], channel |-> c - 1]>>
        ELSE /\ sent' = <<>>
             /\ available_channels' = available_channels
             /\ active_note_channels' = active_note_channels]_vars

\* A send_note_off has just released one of two held channels: the other
\* finger still holds its own.
C17_Witness ==
    /\ op[1] = "send_note_off"
    /\ Cardinality(DOMAIN op[4]) = 2
    /\ op[2] \in DOMAIN op[4]
    /\ op[2] \notin DOMAIN active_note_channels
    /\ Cardinality(DOMAIN active_note_channels) = 1
    /\ available_channels = {op[4][op[2]]}

\* A send_note_off has just been made, with the port open, for a finger that
\* held no channel while another finger held one.
C17_WitnessNoAssignment ==
    /\ op[1] = "send_note_off"
    /\ port = "open"
    /\ op[2] \notin DOMAIN op[4]
    /\ op[4] # EmptyMap
    /\ active_note_channels = op[4]
    /\ sent = <<>>

----------------------------------------------------------------------------
(* C18: reset reclaims everything.  After close_port active_note_channels is   *)
(* empty, available_channels holds every channel that was assigned before the *)
(* call together with those that were available, and the port is closed.      *)

C18_ResetReclaimsEverything ==
    [][op'[1] = "close_port" =>
        /\ active_note_channels' = EmptyMap
        /\ available_channels' = available_channels \cup Values(active_note_channels)
        /\ port' = "none"]_vars

\* A close_port has just reclaimed two assigned channels.
C18_Witness ==
    /\ op[1] = "close_port"
    /\ Cardinality(DOMAIN op[2]) = 2
    /\ active_note_channels = EmptyMap
    /\ Values(op[2]) \subseteq available_channels

----------------------------------------------------------------------------
(* C19: half-open containment.  For every zone (x, y, w, h) and integer point *)
(* (px, py), is_point_inside(px, py) is true exactly when x <= px < x+w and   *)
(* y <= py < y+h; so a zone and a zone of the same size that shares one of    *)
(* its edges never both contain the point, and a zone of zero width or zero   *)
(* height contains no point.                                                  *)

Neighbours(rect) ==
    {<<rect[1] + rect[3], rect[2], rect[3], rect[4]>>,
     <<rect[1] - rect[3], rect[2], rect[3], rect[4]>>,
     <<rect[1], rect[2] + rect[4], rect[3], rect[4]>>,
     <<rect[1], rect[2] - rect[4], rect[3], rect[4]>>}

C19_HalfOpenContainment ==
    op[1] = "is_point_inside" =>
        LET rect == op[2]
            px == op[3]
            py == op[4]
            result == op[5]
        IN  /\ result <=> ( /\ rect[1] <= px /\ px < rect[1] + rect[3]
                            /\ rect[2] <= py /\ py < rect[2] + rect[4] )
            /\ result => \A other \in Neighbours(rect) : ~is_point_inside(other, px, py)
            /\ (rect[3] = 0 \/ rect[4] = 0) => ~result

\* is_point_inside has just rejected a point on the right edge of a zone of
\* positive size, at a height the zone spans.
C19_Witness ==
    /\ op[1] = "is_point_inside"
    /\ op[2][3] > 0 /\ op[2][4] > 0
    /\ op[3] = op[2][1] + op[2][3]
    /\ op[2][2] <= op[4] /\ op[4] < op[2][2] + op[2][4]
    /\ op[5] = FALSE

----------------------------------------------------------------------------
(* C20: claim on a Claimed zone is a no-op.  Calling activate with finger g    *)
(* on a zone that is Claimed by another finger f leaves the zone Claimed by   *)
(* f: the owner is not overwritten.                                           *)

C20_ClaimOnClaimedIsNoop ==
    [][op'[1] = "activate" =>
        LET z == op'[2]
            g == op'[3]
        IN  (zones[z].is_active /\ zones[z].active_finger_id # g)
                => zones'[z] = zones[z]]_vars

----------------------------------------------------------------------------
(* C21: a missing landmark means an absent finger.  In a frame in which the    *)
(* hand of a finger is present and reports the finger extended while the      *)
(* hand's landmark list has no entry for the fingertip, a bound finger is     *)
(* released (one note_off, zone Free and binding removed when the release     *)
(* pass is over, no new binding) and an unbound finger is skipped: no call is *)
(* made for it and it gets neither a binding nor a channel.                   *)

LandmarkMissing(hands, fid) ==
    /\ ~HandAbsent(hands, fid)
    /\ LET hand == hands[Min(HandsOf(hands, fid))] IN
       \A i \in 1..Len(hand.landmarks) : hand.landmarks[i][1] # fid[2]

ExtendedWithoutLandmark(hands, fid) ==
    /\ ReportsExtended(hands, fid)
    /\ LandmarkMissing(hands, fid)

----------------------------------------------------------------------------
(* C22: fingertip lookup by id.  _get_finger_tip_coordinate(landmarks, id)     *)
(* returns the (x, y, z) of the first entry whose landmark id is id whenever  *)
(* the list has such an entry, whatever the list's length or the entry's      *)
(* position, and None when no entry has that id.                              *)

EntriesWithId(hand_landmarks, finger_tip_id) ==
    {i \in 1..Len(hand_landmarks) : hand_landmarks[i][1] = finger_tip_id}

C22_FingertipLookupById ==
    op[1] = "_get_finger_tip_coordinate" =>
        LET hand_landmarks == op[2]
            finger_tip_id == op[3]
            result == op[4]
            present == EntriesWithId(hand_landmarks, finger_tip_id)
        IN  IF present = {} THEN result = None
            ELSE LET lm == hand_landmarks[Min(present)] IN
                 result = <<lm[2], lm[3], lm[4]>>

\* The half of C22 the code keeps: without an entry of that id the result is None.
C22_AbsentGivesNone ==
    op[1] = "_get_finger_tip_coordinate" =>
        (EntriesWithId(op[2], op[3]) = {} => op[4] = None)

----------------------------------------------------------------------------
(* C23: the master channel is reserved.  For every accepted configuration of  *)
(* the channel range, channel 1 is never in available_channels and is never   *)
(* assigned to a finger by send_note_on.                                      *)

master_channel == 1

C23_MasterChannelReserved ==
    op[1] # "config" =>
        /\ master_channel \notin available_channels
        /\ master_channel \notin Values(active_note_channels)

----------------------------------------------------------------------------
(* C24: an invalid channel range falls back.  When midi_channel_range is not  *)
(* a list of two integers, or has a bound outside 1..16, or has low > high,   *)
(* the pool is initialised to the channels 2..16; otherwise to exactly        *)
(* low..high.                                                                 *)

ListOfTwoIntegers(cfg) ==
    /\ cfg.kind = "list"
    /\ Len(cfg.items) = 2
    /\ \A i \in 1..2 : cfg.items[i].kind = "int"

C24_InvalidRangeFallsBack ==
    op[1] = "__init__" =>
        LET cfg == op[2] IN
        /\ active_note_channels = EmptyMap
        /\ IF cfg.kind = "missing" THEN available_channels = 2..16
           ELSE IF ~ListOfTwoIntegers(cfg) THEN available_channels = 2..16
           ELSE LET low == cfg.items[1].val
                    high == cfg.items[2].val
                IN  IF low \notin 1..16 \/ high \notin 1..16 \/ low > high
                    THEN available_channels = 2..16
                    ELSE available_channels = low..high

\* A handler has just been built from an inverted range of two valid bounds
\* and holds the default pool.
C24_Witness ==
    /\ op[1] = "__init__"
    /\ ListOfTwoIntegers(op[2])
    /\ op[2].items[1].val \in 1..16 /\ op[2].items[2].val \in 1..16
    /\ op[2].items[1].val > op[2].items[2].val
    /\ available_channels = 2..16

----------------------------------------------------------------------------
(* C30: flats normalize to the semitone below.  For every note letter L in     *)
(* A..G and octave digit o, _get_midi_value(L + 'b' + o) =                     *)
(* _get_midi_value(L + o) - 1; for every sharp-or-natural name N of           *)
(* NOTE_NAMES, _get_midi_value(N + o) = (o + 1) * 12 + index(N).               *)

C30_FlatsNormalize ==
    op[1] = "_get_midi_value" =>
        LET note_name == op[2]
            result == op[3]
            last == note_name[Len(note_name)]
        IN  /\ ( /\ Len(note_name) = 3
                 /\ note_name[1] \in NoteLetters
                 /\ note_name[2] = "b"
                 /\ IsDigit(last) )
               => result = Returned(_get_midi_value(<<note_name[1], last>>).value - 1)
            /\ ( /\ Len(note_name) >= 2
                 /\ InNoteNames(SubSeq(note_name, 1, Len(note_name) - 1))
                 /\ IsDigit(last) )
               => result = Returned((DigitValue(last) + 1) * 12
                              + NoteIndex(SubSeq(note_name, 1, Len(note_name) - 1)))

\* The sharp-or-natural half alone, with C4 = 60.
C30_SharpsAndNaturals ==
    op[1] = "_get_midi_value" =>
        LET note_name == op[2]
            last == note_name[Len(note_name)]
        IN  /\ ( /\ Len(note_name) >= 2
                 /\ InNoteNames(SubSeq(note_name, 1, Len(note_name) - 1))
                 /\ IsDigit(last) )
               => op[3] = Returned((DigitValue(last) + 1) * 12
                              + NoteIndex(SubSeq(note_name, 1, Len(note_name) - 1)))
            /\ note_name = <<"C", "4">> => op[3] = Returned(60)

----------------------------------------------------------------------------
(* Vocabulary of the layout properties *)

Generated == op[1] = "generate_layout" /\ ~op[3].raised

LayoutCfg == op[2]

LayoutZones == op[3].zones

\* The notes of the generated zones, in list order
ZoneNotes == [k \in 1..Len(LayoutZones) |->
                 <<LayoutZones[k].note_name, LayoutZones[k].note_midi_value>>]

\* y of the top of row r: int(padding + r * row_height)
RowTop(cfg, r) ==
    IntOfQuotient(cfg.padding * 2 + r * (cfg.resolution[2] - 2 * cfg.padding), 2)

NamesPreset(cfg) ==
    /\ cfg.active_scale # ""
    /\ \E i \in 1..Len(cfg.preset_scales) : cfg.preset_scales[i].name = cfg.active_scale

\* The notes of the preset that active_scale names (the first of that name)
NamedPresetNotes(cfg) ==
    LET i == CHOOSE j \in 1..Len(cfg.preset_scales) :
                 /\ cfg.preset_scales[j].name = cfg.active_scale
                 /\ \A k \in 1..(j - 1) : cfg.preset_scales[k].name # cfg.active_scale
    IN  cfg.preset_scales[i].notes

IsValidToken(note_str) == ~_get_midi_value(note_str).raised

ValidTokens(notes) == SelectSeq(notes, IsValidToken)

----------------------------------------------------------------------------
(* C25: round-robin row assignment.  In every generated layout the note at     *)
(* index i of the note list is placed in row i mod 2: its zone's y is the top  *)
(* of row 0 for even i and the top of row 1 for odd i.                         *)

C25_RoundRobinRows ==
    Generated =>
        \A i \in 0..(Len(LayoutZones) - 1) :
            LayoutZones[i + 1].rect[2] = RowTop(LayoutCfg, i % 2)

\* What the row loop does instead: the first half of the list (rounded up) is
\* row 0, the rest is row 1.
C25_SequentialRows ==
    Generated =>
        \A i \in 0..(Len(LayoutZones) - 1) :
            LayoutZones[i + 1].rect[2] =
                RowTop(LayoutCfg, IF i < (Len(LayoutZones) + 1) \div 2 THEN 0 ELSE 1)

----------------------------------------------------------------------------
(* C26: invalid preset tokens are skipped.  When active_scale names a preset,  *)
(* the generated zone list carries exactly the preset's valid note tokens, in  *)
(* their listed order, one zone per token; an invalid token is dropped         *)
(* without affecting the tokens after it and without raising.                  *)

C26_InvalidTokensSkipped ==
    (op[1] = "generate_layout" /\ NamesPreset(LayoutCfg)
        /\ IsValidToken(LayoutCfg.starting_note)) =>
        /\ ~op[3].raised
        /\ Len(LayoutZones) = Len(ValidTokens(NamedPresetNotes(LayoutCfg)))
        /\ \A k \in 1..Len(LayoutZones) :
               /\ LayoutZones[k].note_name = ValidTokens(NamedPresetNotes(LayoutCfg))[k]
               /\ LayoutZones[k].note_midi_value =
                      _get_midi_value(ValidTokens(NamedPresetNotes(LayoutCfg))[k]).value

\* The same for a preset with at least one valid token.
C26_SkippedWhenSomeTokenValid ==
    (op[1] = "generate_layout" /\ NamesPreset(LayoutCfg)
        /\ IsValidToken(LayoutCfg.starting_note)
        /\ ValidTokens(NamedPresetNotes(LayoutCfg)) # <<>>) =>
        /\ ~op[3].raised
        /\ [k \in 1..Len(LayoutZones) |-> LayoutZones[k].note_name]
               = ValidTokens(NamedPresetNotes(LayoutCfg))

----------------------------------------------------------------------------
(* C27: an unknown scale falls back to chromatic.  When active_scale names no  *)
(* preset of preset_scales, the generated zones are the chromatic run of       *)
(* 12 * num_octaves consecutive MIDI values starting at the value of           *)
(* starting_note, the values outside 0..127 omitted, in ascending order.       *)

ChromaticRun(cfg) ==
    LET start_midi == _get_midi_value(cfg.starting_note).value IN
    {v \in start_midi..(start_midi + 12 * cfg.num_octaves - 1) : 0 <= v /\ v <= 127}

C27_UnknownScaleIsChromatic ==
    (Generated /\ LayoutCfg.active_scale # "" /\ ~NamesPreset(LayoutCfg)) =>
        /\ {LayoutZones[k].note_midi_value : k \in 1..Len(LayoutZones)}
               = ChromaticRun(LayoutCfg)
        /\ Len(LayoutZones) = Cardinality(ChromaticRun(LayoutCfg))
        /\ \A k \in 1..(Len(LayoutZones) - 1) :
               LayoutZones[k].note_midi_value < LayoutZones[k + 1].note_midi_value
        /\ \A k \in 1..Len(LayoutZones) :
               LayoutZones[k].note_name = _get_note_name(LayoutZones[k].note_midi_value)

\* An unknown scale name, a run from F9 cut at 127, presets present.
C27_Witness ==
    /\ Generated
    /\ LayoutCfg.active_scale = "Dorian"
    /\ LayoutCfg.preset_scales # <<>>
    /\ LayoutCfg.starting_note = <<"F", "9">>
    /\ LayoutCfg.num_octaves = 1
    /\ Len(LayoutZones) = 3
    /\ LayoutZones[3].note_midi_value = 127

----------------------------------------------------------------------------
(* C28: pitch bend range, endpoints and monotonicity.  For every zone of       *)
(* width > 0 and every integer finger x, calculate_pitch_bend returns an       *)
(* integer of -8191..8191 that is non-decreasing in x, is -8191 for            *)
(* x <= zone.x, 8191 for x >= zone.x + width and 0 at the horizontal centre;   *)
(* for a zone of width 0 it returns 0 for every x.                             *)

C28_PitchBendMapping ==
    op[1] = "calculate_pitch_bend" =>
        LET x == op[2]
            zone_x == op[3][1]
            width == op[3][3]
            bend == op[4]
        IN  /\ width > 0 =>
                /\ bend \in (-8191)..8191
                /\ bend <= calculate_pitch_bend(x + 1, op[3])
                /\ x <= zone_x => bend = -8191
                /\ x >= zone_x + width => bend = 8191
                /\ 2 * (x - zone_x) = width => bend = 0
            /\ width = 0 => bend = 0

\* The centre of the zone (100, 0, 200, 100) of the processor's tests.
C28_Witness ==
    /\ op[1] = "calculate_pitch_bend"
    /\ op[3] = <<100, 0, 200, 100>>
    /\ op[2] = 200
    /\ op[4] = 0

----------------------------------------------------------------------------
(* C29: velocity and intensity are the same mapping.  For every zone and       *)
(* every integer finger y, calculate_initial_velocity(y, rect) =               *)
(* calculate_continuous_intensity(y, rect); the value is an integer of         *)
(* 0..127, non-decreasing in y, 0 for y <= zone.y, 127 for                     *)
(* y >= zone.y + height, 64 at the vertical midpoint of the zone               *)
(* (50, 100, 100, 200), and 0 for a zone of height 0.                          *)

C29_VelocityIsIntensity ==
    op[1] \in {"calculate_initial_velocity", "calculate_continuous_intensity"} =>
        LET y == op[2]
            zone_y == op[3][2]
            height == op[3][4]
            value == op[4]
        IN  /\ value = calculate_initial_velocity(y, op[3])
            /\ value = calculate_continuous_intensity(y, op[3])
            /\ value \in 0..127
            /\ value <= calculate_initial_velocity(y + 1, op[3])
            /\ value <= calculate_continuous_intensity(y + 1, op[3])
            /\ height > 0 =>
                /\ y <= zone_y => value = 0
                /\ y >= zone_y + height => value = 127
            /\ (op[3] = <<50, 100, 100, 200>> /\ y = 200) => value = 64
            /\ height = 0 => value = 0

\* The intensity at the midpoint of the zone (50, 100, 100, 200): 63.5 rounded
\* to 64.
C29_Witness ==
    /\ op[1] = "calculate_continuous_intensity"
    /\ op[3] = <<50, 100, 100, 200>>
    /\ op[2] = 200
    /\ op[4] = 64

----------------------------------------------------------------------------
(* C31: first containing zone wins.  In the new-claim pass a finger's          *)
(* candidate is the first zone in list order whose rectangle contains its      *)
(* fingertip: the finger claims at most one zone per frame and never a later   *)
(* zone, and when that first containing zone is Claimed by another finger the  *)
(* finger claims nothing in that frame, even if a later zone also contains     *)
(* the fingertip and is Free.                                                  *)

\* z is the first zone in list order that contains the tip the hand of fid reports.
FirstContaining(hands, fid, z) ==
    /\ ReportsTipInside(hands, fid, z)
    /\ \A w \in ZoneIdx : w < z => ~ReportsTipInside(hands, fid, w)

\* The zones whose note_on a frame emitted for fid.
ZonesClaimedIn(ev, fid) ==
    {z \in ZoneIdx : \E i \in 1..Len(ev) :
        ev[i] = [type |-> "note_on", fid |-> fid, note |-> ZoneList[z].note_midi_value]}

C31_FirstContainingZoneWins ==
    [][op'[1] = "process_hands_data" =>
        \A g \in AllFingers :
            /\ CountCalls(events', "note_on", g) <= 1
            /\ CountCalls(events', "note_on", g) = 1 =>
                  /\ IsBound(active_notes', g)
                  /\ ZonesClaimedIn(events', g) = {BindingOf(active_notes', g).zone}
                  /\ FirstContaining(hands_data', g, BindingOf(active_notes', g).zone)
                  /\ ZoneClaimedBy(zones', BindingOf(active_notes', g).zone, g)
            /\ \A z \in ZoneIdx : \A f \in AllFingers :
                  ( /\ f # g
                    /\ ReportsExtended(hands_data', g)
                    /\ FirstContaining(hands_data', g, z)
                    /\ \/ ZoneClaimedBy(released'.zones, z, f)
                       \/ ZoneClaimedBy(zones', z, f) )
                  => /\ CountCalls(events', "note_on", g) = 0
                     /\ \A w \in ZoneIdx : ~ZoneClaimedBy(zones', w, g)
                                             \/ ZoneClaimedBy(zones, w, g)]_vars

\* A frame in which an extended unbound finger had its tip inside two zones, the
\* first Claimed by another finger and the second Free, and claimed nothing.
C31_Witness ==
    /\ IsFrame
    /\ \E z1, z2 \in ZoneIdx : \E f, g \in AllFingers :
          /\ f # g /\ z1 < z2
          /\ ReportsExtended(hands_data, g)
          /\ FirstContaining(hands_data, g, z1)
          /\ ReportsTipInside(hands_data, g, z2)
          /\ ZoneClaimedBy(released.zones, z1, f)
          /\ ZoneClaimedBy(zones, z1, f)
          /\ ZoneFree(zones, z2)
          /\ ~IsBound(active_notes, g)
          /\ CountCalls(events, "note_on", g) = 0

\* A frame in which a finger with its tip inside two Free zones claimed the first.
C31_WitnessFirstOfTwo ==
    /\ IsFrame
    /\ \E z1, z2 \in ZoneIdx : \E g \in AllFingers :
          /\ z1 < z2
          /\ FirstContaining(hands_data, g, z1)
          /\ ReportsTipInside(hands_data, g, z2)
          /\ CountCalls(events, "note_on", g) = 1
          /\ ZoneClaimedBy(zones, z1, g)
          /\ ZoneFree(zones, z2)

----------------------------------------------------------------------------
(* C32: sustain emits modulation only.  In each frame in which the binding of  *)
(* finger f is still valid, exactly one pitch_bend(., f) followed by exactly   *)
(* one intensity_update(., f, note_id) is emitted and the binding and its zone *)
(* are unchanged; pitch_bend and intensity_update are never emitted for a      *)
(* finger without a binding, nor in the frame in which the finger's note_on    *)
(* is emitted.                                                                 *)

ModulationCalls(ev, fid) ==
    CountCalls(ev, "pitch_bend", fid) + CountCalls(ev, "intensity_update", fid)

SustainEmitsModulationOnly(fid) ==
    /\ SustainedIn(active_notes, hands_data', fid) =>
          LET b == BindingOf(active_notes, fid) IN
          /\ CallsFor(events', fid) =
                << [type |-> "pitch_bend", fid |-> fid, note |-> -1],
                   [type |-> "intensity_update", fid |-> fid, note |-> b.midi_note] >>
          /\ IsBound(active_notes', fid)
          /\ BindingOf(active_notes', fid) = b
          /\ zones'[b.zone] = zones[b.zone]
    /\ ~IsBound(active_notes, fid) => ModulationCalls(events', fid) = 0
    /\ CountCalls(events', "note_on", fid) > 0 => ModulationCalls(events', fid) = 0

C32_SustainEmitsModulationOnly ==
    [][op'[1] = "process_hands_data" =>
        \A fid \in AllFingers : SustainEmitsModulationOnly(fid)]_vars

\* The same for the fingers of a hand whose handedness is known.
C32_KnownHands ==
    [][op'[1] = "process_hands_data" =>
        \A fid \in AllFingers :
            fid[1] \in Handedness => SustainEmitsModulationOnly(fid)]_vars

\* No modulation without a binding and none in the frame of the note_on, for
\* every finger.
C32_NoModulationOtherwise ==
    [][op'[1] = "process_hands_data" =>
        \A fid \in AllFingers :
            /\ ~IsBound(active_notes, fid) => ModulationCalls(events', fid) = 0
            /\ CountCalls(events', "note_on", fid) > 0
                  => ModulationCalls(events', fid) = 0]_vars

----------------------------------------------------------------------------
(* C33: same-frame hand-over.  When a bound finger, still extended, moves in   *)
(* one frame from its zone into a different Free zone, that single frame emits *)
(* note_off for the old note followed by note_on for the new note, and ends    *)
(* with the old zone Free, the new zone Claimed by the finger and the finger   *)
(* holding a channel, even when every other channel of the pool is assigned.   *)

\* The bound finger fid, still extended, has its tip inside zone new, which is
\* Free and is not the zone of its binding.
MovesInto(notes, zs, hands, fid, new) ==
    /\ IsBound(notes, fid)
    /\ BindingOf(notes, fid).zone # new
    /\ ReportsExtended(hands, fid)
    /\ ~ReportsTipInside(hands, fid, BindingOf(notes, fid).zone)
    /\ FirstContaining(hands, fid, new)
    /\ ZoneFree(zs, new)

HandedOver(fid, new) ==
    LET b == BindingOf(active_notes, fid) IN
    /\ CallsFor(events', fid) =
          << [type |-> "note_off", fid |-> fid, note |-> b.midi_note],
             [type |-> "note_on", fid |-> fid, note |-> ZoneList[new].note_midi_value] >>
    /\ ZoneFree(zones', b.zone)
    /\ ZoneClaimedBy(zones', new, fid)
    /\ IsBound(active_notes', fid)
    /\ BindingOf(active_notes', fid).zone = new
    /\ fid \in DOMAIN active_note_channels'

----------------------------------------------------------------------------
(* C34: note events alternate per finger.  Over any sequence of                *)
(* process_hands_data and cleanup_stale_notes calls, the note_on and note_off  *)
(* events emitted for one finger strictly alternate, starting with note_on,    *)
(* and the finger has an entry in active_notes exactly when its most recent    *)
(* such event is a note_on.  Stated call by call: no finger is bound at the    *)
(* start; the note events a call emits for a finger alternate, begin with      *)
(* note_off exactly when the finger was bound before the call and end with     *)
(* note_on exactly when it is bound after it; a call without note events for   *)
(* the finger leaves it bound or unbound as it was.                            *)

NoteCalls(ev, fid) ==
    CallTypes(SelectSeq(ev, LAMBDA e : e.fid = fid /\ e.type \in {"note_on", "note_off"}))

AlternatesAcross(fid) ==
    LET calls == NoteCalls(events', fid) IN
    /\ \A i \in 1..(Len(calls) - 1) : calls[i] # calls[i + 1]
    /\ calls # <<>> =>
          /\ calls[1] = "note_off" <=> IsBound(active_notes, fid)
          /\ calls[Len(calls)] = "note_on" <=> IsBound(active_notes', fid)
    /\ calls = <<>> => (IsBound(active_notes', fid) <=> IsBound(active_notes, fid))

C34_NoteEventsAlternate ==
    /\ (op[1] = "init" => active_notes = <<>> /\ events = <<>>)
    /\ [][\A fid \in AllFingers : AlternatesAcross(fid)]_vars

\* Every note event is for a finger of AllFingers, and every binding too.
C34_EventsOfKnownFingers ==
    /\ \A i \in 1..Len(events) : events[i].fid \in AllFingers
    /\ \A i \in 1..Len(active_notes) : active_notes[i].fid \in AllFingers

\* A cleanup_stale_notes call released a binding: one note_off, no entry left.
C34_Witness ==
    /\ op[1] = "cleanup_stale_notes"
    /\ \E fid \in AllFingers :
          /\ NoteCalls(events, fid) = <<"note_off">>
          /\ ~IsBound(active_notes, fid)

\* A frame released and claimed again for one finger: note_off, then note_on.
C34_WitnessRetrigger ==
    /\ IsFrame
    /\ \E fid \in AllFingers :
          /\ NoteCalls(events, fid) = <<"note_off", "note_on">>
          /\ IsBound(active_notes, fid)

----------------------------------------------------------------------------
(* C35: target-finger filter.  A note_on is only ever emitted for a finger     *)
(* whose tip landmark id is in target_fingers; target_fingers is all five tip  *)
(* ids when use_all_fingers is true, the tip ids of the valid names of         *)
(* allowed_fingers when it is false, and {INDEX tip} when it is false and      *)
(* allowed_fingers holds no valid finger name.  (A name is valid when its      *)
(* upper-case form is a key of FINGER_TIP_LANDMARKS.)                          *)

AllTipIds == {4, 8, 12, 16, 20}

\* The tip ids of the valid names among names.
ValidTipIds(names) ==
    {t \in AllTipIds : \E i \in 1..Len(names) :
        UpperAll(names[i]) = FingerNameChars[LANDMARK_ID_TO_FINGER_NAME[t]]}

C35_TargetFingerFilter ==
    /\ op[1] = "__init__" =>
          LET cfg == op[2]
              names == IF cfg.allowed_fingers.kind = "missing"
                       THEN << <<"I", "N", "D", "E", "X">> >>
                       ELSE cfg.allowed_fingers.names
          IN  /\ cfg.use_all_fingers \in {"True", "missing"} => op[3] = AllTipIds
              /\ (cfg.use_all_fingers = "False" /\ ValidTipIds(names) # {})
                    => op[3] = ValidTipIds(names)
              /\ (cfg.use_all_fingers = "False" /\ ValidTipIds(names) = {})
                    => op[3] = {8}
    /\ IsFrame =>
          \A i \in 1..Len(events) :
              events[i].type = "note_on" => events[i].fid[2] \in target_fingers

\* A frame in which the RING finger, no target finger, was extended with its
\* tip inside a Free zone and no note_on was emitted.
C35_Witness ==
    /\ IsFrame
    /\ Len(hands_data) = 1
    /\ hands_data[1].finger_states["RING"] = "extended"
    /\ ReportedTip(hands_data[1], FINGER_TIP_LANDMARKS["RING"]) = <<1, 1>>
    /\ is_point_inside(ZoneList[1].rect, 1, 1)
    /\ ZoneFree(zones, 1)
    /\ events = <<>>

\* A manager built with use_all_fingers false and no valid name: INDEX alone.
C35_WitnessFallback ==
    /\ op[1] = "__init__"
    /\ op[2].use_all_fingers = "False"
    /\ op[2].allowed_fingers.kind = "list"
    /\ Len(op[2].allowed_fingers.names) = 1
    /\ op[3] = {8}
    /\ ~InFingerTipLandmarks(op[2].allowed_fingers.names[1])

----------------------------------------------------------------------------
(* C36: chromatic fallback only for unknown names.  generate_layout replaces a *)
(* preset by the chromatic run only when no preset of preset_scales has the    *)
(* name active_scale; when a preset of that name exists but yields no valid    *)
(* note (an empty list, or every token invalid), the result is the empty zone  *)
(* list.                                                                       *)

\* The chromatic run generate_layout falls back to, as (name, value) pairs.
ChromaticNotes(cfg) ==
    [k \in 1..Cardinality(ChromaticRun(cfg)) |->
        LET v == _get_midi_value(cfg.starting_note).value + k - 1 IN
        <<_get_note_name(v), v>>]

C36_ChromaticOnlyForUnknownNames ==
    (Generated /\ NamesPreset(LayoutCfg)) =>
        /\ ValidTokens(NamedPresetNotes(LayoutCfg)) = <<>> => LayoutZones = <<>>
        /\ LayoutZones # <<>> => ZoneNotes # ChromaticNotes(LayoutCfg)

\* With a name that no preset has, the zones are the chromatic run.
C36_UnknownNameIsChromatic ==
    (Generated /\ LayoutCfg.active_scale # "" /\ ~NamesPreset(LayoutCfg)) =>
        ZoneNotes = ChromaticNotes(LayoutCfg)

\* With a preset of that name and a valid token in it, the run is not used.
C36_PresetWithValidToken ==
    (Generated /\ NamesPreset(LayoutCfg)
        /\ ValidTokens(NamedPresetNotes(LayoutCfg)) # <<>>) =>
        /\ LayoutZones # <<>>
        /\ ZoneNotes # ChromaticNotes(LayoutCfg)

----------------------------------------------------------------------------
(* C37: zone notes are valid MIDI notes.  Every zone that generate_layout      *)
(* produces, from the chromatic run or from a preset scale, has a             *)
(* note_midi_value within 0..127.                                              *)

C37_ZoneNotesAreMidiNotes ==
    Generated =>
        \A k \in 1..Len(LayoutZones) : LayoutZones[k].note_midi_value \in 0..127

\* The zones of a chromatic run are within 0..127.
C37_ChromaticZonesAreMidiNotes ==
    (Generated /\ ~NamesPreset(LayoutCfg)) =>
        \A k \in 1..Len(LayoutZones) : LayoutZones[k].note_midi_value \in 0..127

\* A zone of a preset has the value _get_midi_value gives its token.
C37_PresetZonesKeepTheirValue ==
    (Generated /\ NamesPreset(LayoutCfg)
        /\ ValidTokens(NamedPresetNotes(LayoutCfg)) # <<>>) =>
        ZoneNotes = [k \in 1..Len(ValidTokens(NamedPresetNotes(LayoutCfg))) |->
                        LET t == ValidTokens(NamedPresetNotes(LayoutCfg))[k] IN
                        <<t, _get_midi_value(t).value>>]

----------------------------------------------------------------------------
(* C38: name/number round trip.  For every MIDI value m in 0..127,             *)
(* _get_midi_value applied to the name _get_note_name gives for m returns m.   *)

RoundTripDone == op[1] = "_get_midi_value" /\ Len(op) = 4

C38_NameNumberRoundTrip ==
    RoundTripDone => (~op[4].raised /\ op[4].value = op[2])

\* From octave 0 on the round trip gives the value back.
C38_RoundTripFromOctaveZero ==
    (RoundTripDone /\ op[2] >= 12) => (~op[4].raised /\ op[4].value = op[2])

\* In octave -1 the name ends in "-1" and _get_midi_value raises on it.
C38_OctaveMinusOneRaises ==
    (RoundTripDone /\ op[2] < 12) =>
        /\ SubSeq(op[3], Len(op[3]) - 1, Len(op[3])) = <<"-", "1">>
        /\ op[4].raised

----------------------------------------------------------------------------
(* C39: no port, no effect.  While the MIDI port is None or closed, each of    *)
(* send_note_on, send_note_off, send_pitch_bend, send_channel_pressure and     *)
(* send_control_change sends no message and leaves available_channels and     *)
(* active_note_channels as they were.                                          *)

SendMethods == {"send_note_on", "send_note_off", "send_pitch_bend",
                "send_channel_pressure", "send_control_change"}

C39_NoPortNoEffect ==
    [][(port = "none" /\ op'[1] \in SendMethods) =>
          /\ sent' = <<>>
          /\ available_channels' = available_channels
          /\ active_note_channels' = active_note_channels]_vars

\* A send was called on a handler whose port never opened.
C39_Witness ==
    /\ port = "none"
    /\ op[1] = "send_control_change"
    /\ sent = <<>>
    /\ available_channels = mpe_ch_range[1]..mpe_ch_range[2]

\* A send was called on a handler after two fingers had taken both channels of
\* the range and the port was closed.
C39_WitnessAfterClose ==
    /\ port = "none"
    /\ op[1] = "send_note_on"
    /\ sent = <<>>
    /\ Cardinality(available_channels) = 2

====
